---- MODULE Spec2Model ----
(***************************************************************************)
(* Model of argumentum's argument_parser (src/src/argparser.h): the option *)
(* registry, the tokenizing Parser and the validation pass of parse_args.  *)
(*                                                                         *)
(* A string is a sequence of one-character strings, so that prefixes, the  *)
(* position of '=' and the characters of a short-option group are computed *)
(* the way the code computes them.                                         *)
(***************************************************************************)
EXTENDS Integers, Sequences, FiniteSets, TLC

\* The most tokens handed to parse_args by two consecutive calls together.
MaxArgs == 3

(***************************************************************************)
(* Strings                                                                 *)
(***************************************************************************)
DashDash == <<"-", "-">>
Dash == <<"-">>

\* std::string_view::substr(0, n) == p
StartsWith(s, p) == Len(s) >= Len(p) /\ SubSeq(s, 1, Len(p)) = p

\* std::string_view::find(c): the first 1-based index of c, 0 for npos.
Find(s, c) ==
  IF \E i \in 1..Len(s) : s[i] = c
  THEN CHOOSE i \in 1..Len(s) : s[i] = c /\ \A j \in 1..(i - 1) : s[j] # c
  ELSE 0

SeqRange(s) == {s[i] : i \in 1..Len(s)}

\* The letters tolower and toupper exchange.
Letters ==
  <<"a", "b", "c", "d", "e", "f", "g", "h", "i", "j", "k", "l", "m",
    "n", "o", "p", "q", "r", "s", "t", "u", "v", "w", "x", "y", "z">>

Capitals ==
  <<"A", "B", "C", "D", "E", "F", "G", "H", "I", "J", "K", "L", "M",
    "N", "O", "P", "Q", "R", "S", "T", "U", "V", "W", "X", "Y", "Z">>

tolower(c) == IF Find(Capitals, c) # 0 THEN Letters[Find(Capitals, c)] ELSE c

toupper(c) == IF Find(Letters, c) # 0 THEN Capitals[Find(Letters, c)] ELSE c

\* std::transform( begin, end, begin, tolower ) and the same with toupper.
ToLower(s) == [i \in 1..Len(s) |-> tolower(s[i])]

ToUpper(s) == [i \in 1..Len(s) |-> toupper(s[i])]

\* std::isspace in the "C" locale.
isspace(c) == c \in {" ", "\t", "\n", "\r", "\f"}

\* operator< of std::string on strings of letters: the order of the keys
\* of a std::map.
RECURSIVE StringLess(_, _)
StringLess(s, t) ==
  IF t = <<>> THEN FALSE
  ELSE IF s = <<>> THEN TRUE
  ELSE IF s[1] # t[1] THEN Find(Letters, s[1]) < Find(Letters, t[1])
  ELSE StringLess(Tail(s), Tail(t))

\* std::to_string of a non-negative int.
RECURSIVE to_string(_)
to_string(n) ==
  LET digit == <<"0", "1", "2", "3", "4", "5", "6", "7", "8", "9">>[(n % 10) + 1]
  IN  IF n < 10 THEN <<digit>> ELSE to_string(n \div 10) \o <<digit>>

\* s.find_first_not_of( c ): the first position that holds another
\* character, 0 for npos.
FindFirstNotOf(s, c) ==
  IF \E i \in 1..Len(s) : s[i] # c
  THEN CHOOSE i \in 1..Len(s) : s[i] # c /\ \A j \in 1..(i - 1) : s[j] = c
  ELSE 0

(***************************************************************************)
(* Value conversion: from_string<T>::convert.  A long destination accepts  *)
(* a non-empty string of decimal digits and stores its number; a string    *)
(* destination stores the text.                                            *)
(***************************************************************************)
DigitChars == {"0", "1", "2", "3", "4", "5", "6", "7", "8", "9"}

DigitVal(c) ==
  CASE c = "0" -> 0 [] c = "1" -> 1 [] c = "2" -> 2 [] c = "3" -> 3
    [] c = "4" -> 4 [] c = "5" -> 5 [] c = "6" -> 6 [] c = "7" -> 7
    [] c = "8" -> 8 [] c = "9" -> 9

RECURSIVE ToNumber(_)
ToNumber(s) ==
  IF s = <<>> THEN 0
  ELSE 10 * ToNumber(SubSeq(s, 1, Len(s) - 1)) + DigitVal(s[Len(s)])

CanConvert(conv, s) ==
  IF conv = "long" THEN s # <<>> /\ SeqRange(s) \subseteq DigitChars ELSE TRUE

Convert(conv, s) ==
  IF conv = "long" THEN [long |-> ToNumber(s)] ELSE [str |-> s]

(***************************************************************************)
(* Value: the counters of one option's value slot.                         *)
(***************************************************************************)
NewValue == [assignCount |-> 0, optionAssignCount |-> 0, hasErrors |-> FALSE]

\* Value::markBadArgument without the increment of mOptionAssignCount.
Value_markBadArgument_noCount(v) == [v EXCEPT !.hasErrors = TRUE]

Value_markBadArgument(v) ==
  [v EXCEPT !.optionAssignCount = @ + 1, !.hasErrors = TRUE]

Value_onOptionStarted(v) == [v EXCEPT !.optionAssignCount = 0]

\* ConvertedValue::assign with the scalar overload chosen for a vector.
ConvertedValue_assign_overwrite(opt, dst, value) == <<Convert(opt.conv, value)>>

\* ConvertedValue::assign: a scalar destination is overwritten, a vector
\* destination is appended to.  A destination is the sequence of the values
\* it holds; the empty sequence is the value-initialized destination.
ConvertedValue_assign(opt, dst, value) ==
  IF opt.isVector THEN Append(dst, Convert(opt.conv, value))
  ELSE <<Convert(opt.conv, value)>>

\* Value::setValue with a doSetValue that clears the destination when the
\* conversion fails.
Value_setValue_clearOnFail(opt, v, dst, value) ==
  LET v1 == [v EXCEPT !.assignCount = @ + 1, !.optionAssignCount = @ + 1]
  IN  IF opt.conv = "void"
      THEN [slot |-> v1, dst |-> dst, exc |-> "none"]
      ELSE IF CanConvert(opt.conv, value)
      THEN [slot |-> v1, dst |-> ConvertedValue_assign(opt, dst, value), exc |-> "none"]
      ELSE [slot |-> v1, dst |-> <<>>, exc |-> "invalid_argument"]

\* Value::setValue: both counters are incremented, then doSetValue converts
\* and stores.  A failed conversion throws after the increments.
Value_setValue(opt, v, dst, value) ==
  LET v1 == [v EXCEPT !.assignCount = @ + 1, !.optionAssignCount = @ + 1]
  IN  IF opt.conv = "void"
      THEN [slot |-> v1, dst |-> dst, exc |-> "none"]
      ELSE IF CanConvert(opt.conv, value)
      THEN [slot |-> v1, dst |-> ConvertedValue_assign(opt, dst, value), exc |-> "none"]
      ELSE [slot |-> v1, dst |-> dst, exc |-> "invalid_argument"]

(***************************************************************************)
(* Option                                                                  *)
(***************************************************************************)
\* An Option as its constructor and member initializers leave it.
NewOption ==
  [short |-> <<>>, long |-> <<>>, flagValue |-> <<"1">>, choices |-> {},
   minArgs |-> 0, maxArgs |-> 0, isRequired |-> FALSE, isVector |-> FALSE,
   group |-> <<>>, conv |-> "str", dest |-> "none", metavar |-> <<>>,
   action |-> "none"]

Option_getName(opt) == IF opt.long = <<>> THEN opt.short ELSE opt.long

Option_hasName(opt, name) == name = opt.short \/ name = opt.long

\* Option::getMetavar throws: without a metavar, a name made of dashes
\* only has no character to start from, and substr throws
\* std::out_of_range.
Option_getMetavarThrows(opt) ==
  opt.metavar = <<>> /\ FindFirstNotOf(Option_getName(opt), "-") = 0

\* Option::getMetavar, where it returns.
Option_getMetavar(opt) ==
  IF opt.metavar # <<>> THEN opt.metavar
  ELSE LET name == Option_getName(opt)
       IN  ToUpper(SubSeq(name, FindFirstNotOf(name, "-"), Len(name)))

Option_acceptsAnyArguments(opt) == opt.minArgs > 0 \/ opt.maxArgs # 0

\* Option::willAcceptArgument comparing with <= .
Option_willAcceptArgument_upTo(opt, v) ==
  opt.maxArgs < 0 \/ v.optionAssignCount <= opt.maxArgs

Option_willAcceptArgument(opt, v) ==
  opt.maxArgs < 0 \/ v.optionAssignCount < opt.maxArgs

Option_needsMoreArguments(opt, v) == v.optionAssignCount < opt.minArgs

Option_wasAssigned(v) == v.assignCount > 0

Option_wasAssignedThroughThisOption(v) == v.optionAssignCount > 0

\* AssignAction::assign of the actions the program installs: the string the
\* action returns in a sequence, <<>> when it returns std::nullopt.  The
\* action "same" is AssignAction itself; "drop" and "seven" override assign,
\* and none of them writes to the target.
AssignAction_assign(action, value) ==
  CASE action = "same" -> <<value>>
    [] action = "drop" -> <<>>
    [] action = "seven" -> << <<"7">> >>

\* Option::setValue calling the slot's setValue with the given value after
\* the action, whatever the action returned.
Option_setValue_ignoreResult(opt, v, dst, value) ==
  IF opt.choices # {} /\ value \notin opt.choices
  THEN [slot |-> Value_markBadArgument(v), dst |-> dst, exc |-> "InvalidChoiceError"]
  ELSE Value_setValue(opt, v, dst, value)

\* Option::setValue: the choice check, then the assign-action if there is
\* one, then the slot's setValue.
Option_setValue(opt, v, dst, value) ==
  IF opt.choices # {} /\ value \notin opt.choices
  THEN [slot |-> Value_markBadArgument(v), dst |-> dst, exc |-> "InvalidChoiceError"]
  ELSE LET newValue == IF opt.action # "none"
                       THEN AssignAction_assign(opt.action, value)
                       ELSE <<value>>
       IN  IF newValue # <<>>
           THEN Value_setValue(opt, v, dst, newValue[1])
           ELSE [slot |-> v, dst |-> dst, exc |-> "none"]

\* The count as it is given, without std::max.
Max0_unclamped(n) == n

\* Option::setNArgs / setMinArgs / setMaxArgs
Max0(n) == IF n > 0 THEN n ELSE 0
Option_setNArgs(opt, n) == [opt EXCEPT !.minArgs = Max0(n), !.maxArgs = Max0(n)]
Option_setMinArgs(opt, n) == [opt EXCEPT !.minArgs = Max0(n), !.maxArgs = -1]
Option_setMaxArgs(opt, n) == [opt EXCEPT !.minArgs = 0, !.maxArgs = Max0(n)]

(***************************************************************************)
(* State                                                                   *)
(***************************************************************************)
VARIABLES
  mOptions,          \* argument_parser::mOptions, in declaration order
  mPositional,       \* argument_parser::mPositional, in declaration order
  mHelpOptionNames,  \* argument_parser::mHelpOptionNames
  mGroups,           \* argument_parser::mGroups, in key order of the std::map
  mpActiveGroup,     \* argument_parser::mpActiveGroup: a group name, <<>> for nullptr
  exitMode,          \* ParserConfig::Data::exitMode
  alphabet,          \* the tokens the caller builds argument vectors from
  optValues,         \* the Value of each element of mOptions
  posValues,         \* the Value of each element of mPositional
  dest,              \* the destinations the options refer to
  args,              \* the argument vector of the current parse_args call
  argIdx,            \* the position of the loop of Parser::parse in args
  mIgnoreOptions,    \* Parser::mIgnoreOptions
  mPosition,         \* Parser::mPosition
  mpActiveOption,    \* Parser::mpActiveOption: an index of mOptions, 0 for nullptr
  errors,            \* ParseResult::errors
  ignoredArguments,  \* ParseResult::ignoredArguments
  setCalls,          \* history: the calls of Option::setValue made by this parse
  stale,             \* history: the destinations that held a value of an earlier
                     \* call when the current call of parse_args began
  pc,                \* where parse_args stands
  exception,         \* the exception that left the last call, "none" otherwise
  handle,            \* the OptionConfig the last add_argument returned
  lastCall,          \* history: the last declaration or description call
  described          \* the ArgumentHelpResult of the last describe_argument

vars == <<mOptions, mPositional, mHelpOptionNames, mGroups, mpActiveGroup,
          exitMode, alphabet,
          optValues, posValues, dest, args, argIdx, mIgnoreOptions, mPosition,
          mpActiveOption, errors, ignoredArguments, setCalls, stale, pc, exception,
          handle, lastCall, described>>

registry == <<mOptions, mPositional, mHelpOptionNames, mGroups, mpActiveGroup,
              exitMode, alphabet>>

\* What the declaration and description calls write besides the registry.
builder == <<handle, lastCall, described>>

\* The state of the parse_args calls.
parsing == <<dest, args, argIdx, mIgnoreOptions, mPosition, mpActiveOption, errors,
             ignoredArguments, setCalls, stale, pc>>

NoHandle == [list |-> "none", index |-> 0, mCountWasSet |-> FALSE]

NoCall == [op |-> "none"]

NoDescription == [arguments |-> "none"]

(***************************************************************************)
(* Parser.  The operators below transform a record of the state a parse    *)
(* changes: O and P (the Values of mOptions and mPositional), dest, errors,*)
(* free (ignoredArguments), active, position, ignore, calls (the history   *)
(* of Option::setValue calls), tok (the index of the token being handled)  *)
(* and exc, the exception in flight ("none" when there is none).           *)
(***************************************************************************)
ParseError(optionName, code) == [option |-> optionName, errorCode |-> code]

RefOption(ref) == IF ref[1] = "opt" THEN mOptions[ref[2]] ELSE mPositional[ref[2]]

RefValue(st, ref) == IF ref[1] = "opt" THEN st.O[ref[2]] ELSE st.P[ref[2]]

Parser_addError(st, optionName, code) ==
  [st EXCEPT !.errors = Append(@, ParseError(optionName, code))]

\* The effect of option.setValue(value) on the parse state; exc is the
\* exception it throws.
CallSetValue(st, ref, value) ==
  LET opt == RefOption(ref)
      r == Option_setValue(opt, RefValue(st, ref), st.dest[opt.dest], value)
      call == [tok |-> st.tok, ref |-> ref, value |-> value, exc |-> r.exc]
  IN  [st EXCEPT !.O = IF ref[1] = "opt" THEN [@ EXCEPT ![ref[2]] = r.slot] ELSE @,
                 !.P = IF ref[1] = "pos" THEN [@ EXCEPT ![ref[2]] = r.slot] ELSE @,
                 !.dest = [@ EXCEPT ![opt.dest] = r.dst],
                 !.calls = Append(@, call),
                 !.exc = r.exc]

\* Parser::setValue: option.setValue inside try/catch.
Parser_setValue(st, ref, value) ==
  LET r == CallSetValue(st, ref, value)
      name == Option_getName(RefOption(ref))
  IN  IF r.exc = "InvalidChoiceError"
      THEN Parser_addError([r EXCEPT !.exc = "none"], name, "INVALID_CHOICE")
      ELSE IF r.exc \in {"invalid_argument", "out_of_range"}
      THEN Parser_addError([r EXCEPT !.exc = "none"], name, "CONVERSION_ERROR")
      ELSE r

\* Parser::closeOption with its two tests in the other order: an option
\* that was given nothing gets its flag value even when arguments are missing.
Parser_closeOption_flagFirst(st) ==
  IF st.active # 0
  THEN LET opt == mOptions[st.active]
           v == st.O[st.active]
           s1 == IF Option_willAcceptArgument(opt, v)
                    /\ ~Option_wasAssignedThroughThisOption(v)
                 THEN CallSetValue(st, <<"opt", st.active>>, opt.flagValue)
                 ELSE IF Option_needsMoreArguments(opt, v)
                 THEN Parser_addError(st, Option_getName(opt), "MISSING_ARGUMENT")
                 ELSE st
       IN  IF s1.exc # "none" THEN s1 ELSE [s1 EXCEPT !.active = 0]
  ELSE [st EXCEPT !.active = 0]

\* Parser::closeOption.  option.setValue is called outside any try block: an
\* exception leaves closeOption before mpActiveOption is cleared.
Parser_closeOption(st) ==
  IF st.active # 0
  THEN LET opt == mOptions[st.active]
           v == st.O[st.active]
           s1 == IF Option_needsMoreArguments(opt, v)
                 THEN Parser_addError(st, Option_getName(opt), "MISSING_ARGUMENT")
                 ELSE IF Option_willAcceptArgument(opt, v)
                         /\ ~Option_wasAssignedThroughThisOption(v)
                 THEN CallSetValue(st, <<"opt", st.active>>, opt.flagValue)
                 ELSE st
       IN  IF s1.exc # "none" THEN s1 ELSE [s1 EXCEPT !.active = 0]
  ELSE [st EXCEPT !.active = 0]

\* Parser::findOption: the index of the first option that has the name.
Parser_findOption(name) ==
  IF \E i \in 1..Len(mOptions) : Option_hasName(mOptions[i], name)
  THEN CHOOSE i \in 1..Len(mOptions) :
         /\ Option_hasName(mOptions[i], name)
         /\ \A j \in 1..(i - 1) : ~Option_hasName(mOptions[j], name)
  ELSE 0

\* Parser::startOption.  An exception in flight skips it (the loop over a
\* short-option group is left by the exception).
Parser_startOption(st, token) ==
  IF st.exc # "none" THEN st
  ELSE
    LET c == IF st.active # 0 THEN Parser_closeOption(st) ELSE st
        eqpos == Find(token, "=")
        arg == IF eqpos # 0 THEN SubSeq(token, eqpos + 1, Len(token)) ELSE <<>>
        name == IF eqpos # 0 THEN SubSeq(token, 1, eqpos - 1) ELSE token
        i == Parser_findOption(name)
    IN  IF c.exc # "none" THEN c
        ELSE IF i # 0
        THEN LET opt == mOptions[i]
                 ref == <<"opt", i>>
                 s1 == [c EXCEPT !.O[i] = Value_onOptionStarted(@)]
                 s2 == IF Option_willAcceptArgument(opt, s1.O[i])
                       THEN [s1 EXCEPT !.active = i]
                       ELSE Parser_setValue(s1, ref, opt.flagValue)
             IN  IF arg # <<>>
                 THEN IF Option_willAcceptArgument(opt, s2.O[i])
                      THEN Parser_setValue(s2, ref, arg)
                      ELSE Parser_addError(s2, name, "FLAG_PARAMETER")
                 ELSE s2
        ELSE Parser_addError(c, name, "UNKNOWN_OPTION")

\* The loop of Parser::parse over the characters of a short-option group:
\* startOption( "-" + arg[i] ) for every character after the dash.
RECURSIVE Parser_startGroup(_, _, _)
Parser_startGroup(st, arg, i) ==
  IF i > Len(arg) THEN st
  ELSE Parser_startGroup(Parser_startOption(st, <<"-", arg[i]>>), arg, i + 1)

\* The while loop of Parser::addFreeArgument: the first positional at or
\* after pos that will accept an argument, Len(mPositional) if there is none.
\* pos counts from 0, as mPosition does.
RECURSIVE NextAccepting(_, _)
NextAccepting(st, pos) ==
  IF pos >= Len(mPositional) THEN pos
  ELSE IF Option_willAcceptArgument(mPositional[pos + 1], st.P[pos + 1]) THEN pos
  ELSE NextAccepting(st, pos + 1)

\* Parser::addFreeArgument with mPosition advanced before the search.
Parser_addFreeArgument_advanceFirst(st, arg) ==
  LET pos == NextAccepting(st, st.position + 1)
  IN  IF pos < Len(mPositional)
      THEN Parser_setValue([st EXCEPT !.position = pos], <<"pos", pos + 1>>, arg)
      ELSE [st EXCEPT !.position = pos, !.free = Append(@, arg)]

\* Parser::addFreeArgument without the return after setValue: the token
\* a positional took is a free argument as well.
Parser_addFreeArgument_noReturn(st, arg) ==
  LET pos == NextAccepting(st, st.position)
  IN  IF pos < Len(mPositional)
      THEN [Parser_setValue([st EXCEPT !.position = pos], <<"pos", pos + 1>>, arg)
              EXCEPT !.free = Append(@, arg)]
      ELSE [st EXCEPT !.position = pos, !.free = Append(@, arg)]

\* Parser::addFreeArgument
Parser_addFreeArgument(st, arg) ==
  LET pos == NextAccepting(st, st.position)
  IN  IF pos < Len(mPositional)
      THEN Parser_setValue([st EXCEPT !.position = pos], <<"pos", pos + 1>>, arg)
      ELSE [st EXCEPT !.position = pos, !.free = Append(@, arg)]

\* The branch of Parser::parse for a token without a dash prefix.
Parser_plainToken(st, arg) ==
  IF st.active # 0
  THEN LET opt == mOptions[st.active]
       IN  IF Option_willAcceptArgument(opt, st.O[st.active])
           THEN LET s1 == Parser_setValue(st, <<"opt", st.active>>, arg)
                IN  IF ~Option_willAcceptArgument(opt, s1.O[st.active])
                    THEN Parser_closeOption(s1)
                    ELSE s1
           ELSE st
  ELSE Parser_addFreeArgument(st, arg)

\* Parser_parseToken without the test of mIgnoreOptions: option parsing goes
\* on after a bare --.
Parser_parseToken_noIgnore(st, arg) ==
  IF arg = DashDash THEN [st EXCEPT !.ignore = TRUE]
  ELSE IF StartsWith(arg, DashDash) THEN Parser_startOption(st, arg)
  ELSE IF StartsWith(arg, Dash)
       THEN IF Len(arg) = 2 THEN Parser_startOption(st, arg)
            ELSE Parser_startGroup(st, arg, 2)
  ELSE Parser_plainToken(st, arg)

\* The loop of Parser::parse with a -- that closes the active option.
Parser_parseToken_closeOnDashDash(st, arg) ==
  IF arg = DashDash THEN [Parser_closeOption(st) EXCEPT !.ignore = TRUE]
  ELSE IF st.ignore THEN Parser_addFreeArgument(st, arg)
  ELSE IF StartsWith(arg, DashDash) THEN Parser_startOption(st, arg)
  ELSE IF StartsWith(arg, Dash)
       THEN IF Len(arg) = 2 THEN Parser_startOption(st, arg)
            ELSE Parser_startGroup(st, arg, 2)
  ELSE Parser_plainToken(st, arg)

\* One iteration of the loop of Parser::parse.
Parser_parseToken(st, arg) ==
  IF arg = DashDash THEN [st EXCEPT !.ignore = TRUE]
  ELSE IF st.ignore THEN Parser_addFreeArgument(st, arg)
  ELSE IF StartsWith(arg, DashDash) THEN Parser_startOption(st, arg)
  ELSE IF StartsWith(arg, Dash)
       THEN IF Len(arg) = 2 THEN Parser_startOption(st, arg)
            ELSE Parser_startGroup(st, arg, 2)
  ELSE Parser_plainToken(st, arg)

(***************************************************************************)
(* Validation pass                                                         *)
(***************************************************************************)
Indices(n) == [i \in 1..n |-> i]

\* The errors f[i] of the indices i of 1..n with test[i], in index order.
ErrorsOf(n, test, f) ==
  LET sel == SelectSeq(Indices(n), LAMBDA i : test[i])
  IN  [k \in 1..Len(sel) |-> f[sel[k]]]

GroupOf(name) == CHOOSE g \in SeqRange(mGroups) : g.name = name

InExclusiveGroup(opt) == opt.group # <<>> /\ GroupOf(opt.group).isExclusive

InRequiredGroup(opt) == opt.group # <<>> /\ GroupOf(opt.group).isRequired

\* verifyDefinedOptions without the test of isRequired: it throws for every
\* option of an exclusive group.
VerifyFails_anyMember(opts) ==
  \E i \in 1..Len(opts) : InExclusiveGroup(opts[i])

\* verifyDefinedOptions throws for a required option of an exclusive group.
VerifyFails(opts) ==
  \E i \in 1..Len(opts) : opts[i].isRequired /\ InExclusiveGroup(opts[i])

\* reportMissingOptions without the test of isRequired.
reportMissingOptions_everyOption(O, P) ==
  ErrorsOf(Len(mOptions),
           [i \in 1..Len(mOptions) |-> ~Option_wasAssigned(O[i])],
           [i \in 1..Len(mOptions) |->
              ParseError(Option_getName(mOptions[i]), "MISSING_OPTION")])
  \o ErrorsOf(Len(mPositional),
           [i \in 1..Len(mPositional) |->
              Option_needsMoreArguments(mPositional[i], P[i])],
           [i \in 1..Len(mPositional) |->
              ParseError(Option_getName(mPositional[i]), "MISSING_ARGUMENT")])

\* reportMissingOptions with its two loops exchanged.
reportMissingOptions_positionalsFirst(O, P) ==
  ErrorsOf(Len(mPositional),
           [i \in 1..Len(mPositional) |->
              Option_needsMoreArguments(mPositional[i], P[i])],
           [i \in 1..Len(mPositional) |->
              ParseError(Option_getName(mPositional[i]), "MISSING_ARGUMENT")])
  \o ErrorsOf(Len(mOptions),
           [i \in 1..Len(mOptions) |->
              mOptions[i].isRequired /\ ~Option_wasAssigned(O[i])],
           [i \in 1..Len(mOptions) |->
              ParseError(Option_getName(mOptions[i]), "MISSING_OPTION")])

reportMissingOptions(O, P) ==
  ErrorsOf(Len(mOptions),
           [i \in 1..Len(mOptions) |->
              mOptions[i].isRequired /\ ~Option_wasAssigned(O[i])],
           [i \in 1..Len(mOptions) |->
              ParseError(Option_getName(mOptions[i]), "MISSING_OPTION")])
  \o ErrorsOf(Len(mPositional),
           [i \in 1..Len(mPositional) |->
              Option_needsMoreArguments(mPositional[i], P[i])],
           [i \in 1..Len(mPositional) |->
              ParseError(Option_getName(mPositional[i]), "MISSING_ARGUMENT")])

\* counts[group] of reportExclusiveViolations: the assigned options of an
\* exclusive group, in declaration order.
AssignedMembers(O, g) ==
  SelectSeq(Indices(Len(mOptions)),
            LAMBDA i : /\ mOptions[i].group = mGroups[g].name
                       /\ mGroups[g].isExclusive
                       /\ Option_wasAssigned(O[i]))

reportExclusiveViolations(O) ==
  ErrorsOf(Len(mGroups),
           [g \in 1..Len(mGroups) |-> Len(AssignedMembers(O, g)) > 1],
           [g \in 1..Len(mGroups) |->
              IF Len(AssignedMembers(O, g)) > 1
              THEN ParseError(Option_getName(mOptions[AssignedMembers(O, g)[1]]),
                              "EXCLUSIVE_OPTION")
              ELSE ParseError(<<>>, "EXCLUSIVE_OPTION")])

\* reportMissingGroups counts the assigned named options of every required
\* group that has a named option.
reportMissingGroups(O) ==
  ErrorsOf(Len(mGroups),
           [g \in 1..Len(mGroups) |->
              /\ mGroups[g].isRequired
              /\ \E i \in 1..Len(mOptions) : mOptions[i].group = mGroups[g].name
              /\ \A i \in 1..Len(mOptions) :
                   mOptions[i].group = mGroups[g].name => ~Option_wasAssigned(O[i])],
           [g \in 1..Len(mGroups) |-> ParseError(mGroups[g].name, "MISSING_OPTION_GROUP")])

(***************************************************************************)
(* Registries.  Each is what a sequence of add_argument / add_group calls  *)
(* and option configuration calls builds, with the exit mode configured    *)
(* and the tokens its callers combine into argument vectors.               *)
(***************************************************************************)
HelpLong == <<"-", "-", "h", "e", "l", "p">>
HelpShort == <<"-", "h">>
Bogus == <<"-", "-", "b", "o", "g", "u", "s">>

NamedOpt(short, long, conv, dst) ==
  [NewOption EXCEPT !.short = short, !.long = long, !.conv = conv, !.dest = dst]

\* tryAddArgument for dash-free names: exactly one argument, or any number
\* for a vector destination.
PositionalOpt(name, conv, dst, isVector) ==
  LET o == [NewOption EXCEPT !.long = name, !.conv = conv, !.dest = dst,
                             !.isVector = isVector]
  IN  IF isVector THEN Option_setMinArgs(o, 0) ELSE Option_setNArgs(o, 1)

\* Flags -a -b -c and -d with one argument; no positionals.
RegGroupOfShorts ==
  [options |-> << NamedOpt(<<"-", "a">>, <<>>, "long", "a"),
                  NamedOpt(<<"-", "b">>, <<>>, "str", "b"),
                  NamedOpt(<<"-", "c">>, <<>>, "str", "c"),
                  Option_setNArgs(NamedOpt(<<"-", "d">>, <<>>, "long", "d"), 1) >>,
   positional |-> << >>,
   helpNames |-> {}, groups |-> << >>, activeGroup |-> << >>,
   exitMode |-> "EXIT_RETURN",
   alphabet |-> { <<"-", "a", "b", "d">>, <<"-", "d">>, <<"-", "b">>,
                  <<"4", "2">>, <<"x">>, DashDash, HelpShort }]

\* --val/-v with one argument, the flag --flg, one scalar positional.
RegLongOptions ==
  [options |-> << Option_setNArgs(NamedOpt(<<"-", "v">>, <<"-", "-", "v", "a", "l">>, "long", "v"), 1),
                  NamedOpt(<<>>, <<"-", "-", "f", "l", "g">>, "str", "f") >>,
   positional |-> << PositionalOpt(<<"p">>, "str", "p", FALSE) >>,
   helpNames |-> {}, groups |-> << >>, activeGroup |-> << >>,
   exitMode |-> "EXIT_THROW",
   alphabet |-> { <<"-", "-", "v", "a", "l", "=", "5">>, <<"-", "-", "v", "a", "l">>,
                  <<"-", "-", "f", "l", "g", "=", "5">>, <<"-", "-", "f", "l", "g">>,
                  <<"5">>, DashDash, Bogus, HelpLong }]

\* -c with at most one argument out of the choices 5 and 7, the flag
\* -a/--all, a vector positional.
RegChoices ==
  [options |-> << [Option_setMaxArgs(NamedOpt(<<"-", "c">>, <<>>, "str", "c"), 1)
                     EXCEPT !.choices = { <<"5">>, <<"7">> }],
                  NamedOpt(<<"-", "a">>, <<"-", "-", "a", "l", "l">>, "long", "a") >>,
   positional |-> << PositionalOpt(<<"r", "e", "s", "t">>, "str", "r", TRUE) >>,
   helpNames |-> {}, groups |-> << >>, activeGroup |-> << >>,
   exitMode |-> "EXIT_RETURN",
   alphabet |-> { <<"-", "c">>, <<"-", "a">>, <<"-", "a", "c">>,
                  <<"-", "-", "a", "l", "l", "=", "5">>, <<"5">>, <<"x">>,
                  DashDash, Bogus }]

\* --pair with two arguments, -m with one or more arguments appended to a
\* vector, one scalar long positional.
RegArities ==
  [options |-> << Option_setNArgs(NamedOpt(<<>>, <<"-", "-", "p", "a", "i", "r">>, "long", "q"), 2),
                  Option_setMinArgs([NamedOpt(<<"-", "m">>, <<>>, "str", "m")
                                       EXCEPT !.isVector = TRUE], 1) >>,
   positional |-> << PositionalOpt(<<"n">>, "long", "n", FALSE) >>,
   helpNames |-> {}, groups |-> << >>, activeGroup |-> << >>,
   exitMode |-> "EXIT_TERMINATE",
   alphabet |-> { <<"-", "-", "p", "a", "i", "r", "=", "5">>, <<"-", "-", "p", "a", "i", "r">>,
                  <<"-", "m">>, <<"5">>, <<"x">>, DashDash, HelpShort }]

\* The flags -a and -b write one destination with their own flag values, -n
\* takes at most one argument and has the flag value 7, the flag -k has a
\* flag value its long destination cannot convert.
RegFlagValues ==
  [options |-> << [NamedOpt(<<"-", "a">>, <<>>, "str", "f") EXCEPT !.flagValue = <<"A">>],
                  [NamedOpt(<<"-", "b">>, <<>>, "str", "f") EXCEPT !.flagValue = <<"B">>],
                  [Option_setMaxArgs(NamedOpt(<<"-", "n">>, <<>>, "long", "n"), 1)
                     EXCEPT !.flagValue = <<"7">>],
                  [NamedOpt(<<"-", "k">>, <<>>, "long", "k") EXCEPT !.flagValue = <<"x">>] >>,
   positional |-> << >>,
   helpNames |-> {}, groups |-> << >>, activeGroup |-> << >>,
   exitMode |-> "EXIT_RETURN",
   alphabet |-> { <<"-", "a">>, <<"-", "b">>, <<"-", "b", "a">>, <<"-", "n">>, <<"-", "k">>,
                  <<"5">>, DashDash }]

\* The required --num/-n with one long argument, the flag --one that stores
\* its flag value in the destination of --num, a vector positional of longs.
RegRequired ==
  [options |-> << [Option_setNArgs(NamedOpt(<<"-", "n">>, <<"-", "-", "n", "u", "m">>, "long", "n"), 1)
                     EXCEPT !.isRequired = TRUE],
                  NamedOpt(<<>>, <<"-", "-", "o", "n", "e">>, "long", "n") >>,
   positional |-> << PositionalOpt(<<"n", "u", "m", "s">>, "long", "r", TRUE) >>,
   helpNames |-> {}, groups |-> << >>, activeGroup |-> << >>,
   exitMode |-> "EXIT_RETURN",
   alphabet |-> { <<"-", "-", "n", "u", "m">>, <<"-", "-", "o", "n", "e">>,
                  <<"5">>, <<"x">>, <<"7">> }]

\* --pick/-p with at most two arguments out of the choices 5 and 7 and the
\* flag value 7, the flag -z.
RegChoiceList ==
  [options |-> << [Option_setMaxArgs(NamedOpt(<<"-", "p">>, <<"-", "-", "p", "i", "c", "k">>, "long", "c"), 2)
                     EXCEPT !.choices = { <<"5">>, <<"7">> }, !.flagValue = <<"7">>],
                  NamedOpt(<<"-", "z">>, <<>>, "str", "b") >>,
   positional |-> << >>,
   helpNames |-> {}, groups |-> << >>, activeGroup |-> << >>,
   exitMode |-> "EXIT_RETURN",
   alphabet |-> { <<"-", "-", "p", "i", "c", "k">>, <<"-", "-", "p", "i", "c", "k", "=", "x">>,
                  <<"-", "z">>, <<"5">>, <<"x">> }]

GroupExcl == <<"e", "x", "c", "l">>
GroupNeed == <<"n", "e", "e", "d">>
HelpUsage == <<"-", "-", "u", "s", "a", "g", "e">>

\* add_help_option("--usage"); the required exclusive group excl with the
\* flag -x and -y with one long argument; the required group need with the
\* required flag -r and the positional file; end_group().
RegGroups ==
  [options |-> << [NewOption EXCEPT !.long = HelpUsage, !.conv = "void"],
                  [NamedOpt(<<"-", "x">>, <<>>, "str", "a") EXCEPT !.group = GroupExcl],
                  [Option_setNArgs(NamedOpt(<<"-", "y">>, <<>>, "long", "b"), 1)
                     EXCEPT !.group = GroupExcl],
                  [NamedOpt(<<"-", "r">>, <<>>, "str", "c")
                     EXCEPT !.isRequired = TRUE, !.group = GroupNeed] >>,
   positional |-> << [PositionalOpt(<<"f", "i", "l", "e">>, "str", "p", FALSE)
                        EXCEPT !.group = GroupNeed] >>,
   helpNames |-> { HelpUsage },
   groups |-> << [name |-> GroupExcl, isExclusive |-> TRUE, isRequired |-> TRUE],
                 [name |-> GroupNeed, isExclusive |-> FALSE, isRequired |-> TRUE] >>,
   activeGroup |-> << >>,
   exitMode |-> "EXIT_RETURN",
   alphabet |-> { <<"-", "x">>, <<"-", "y">>, <<"-", "r">>, <<"5">>, <<"b">>,
                  HelpUsage, HelpShort }]

GroupMode == <<"m", "o", "d", "e">>

\* The exclusive group mode, still the active group, with the required
\* flag -a and the flag -b.
RegRequiredExclusive ==
  [options |-> << [NamedOpt(<<"-", "a">>, <<>>, "long", "a")
                     EXCEPT !.isRequired = TRUE, !.group = GroupMode],
                  [NamedOpt(<<"-", "b">>, <<>>, "str", "b") EXCEPT !.group = GroupMode] >>,
   positional |-> << >>,
   helpNames |-> {},
   groups |-> << [name |-> GroupMode, isExclusive |-> TRUE, isRequired |-> FALSE] >>,
   activeGroup |-> GroupMode,
   exitMode |-> "EXIT_RETURN",
   alphabet |-> { <<"-", "a">>, <<"-", "b">>, HelpShort }]

\* -l with one long argument per occurrence, appended to a vector.
RegVectorOption ==
  [options |-> << Option_setNArgs([NamedOpt(<<"-", "l">>, <<>>, "long", "m")
                                     EXCEPT !.isVector = TRUE], 1) >>,
   positional |-> << >>,
   helpNames |-> {}, groups |-> << >>, activeGroup |-> << >>,
   exitMode |-> "EXIT_RETURN",
   alphabet |-> { <<"-", "l">>, <<"1">>, <<"2">> }]

\* The scalar positional src, then the vector positional pair with
\* maxargs(2).
RegPositionals ==
  [options |-> << >>,
   positional |-> << PositionalOpt(<<"s", "r", "c">>, "str", "p", FALSE),
                     Option_setMaxArgs(PositionalOpt(<<"p", "a", "i", "r">>, "long", "r", TRUE), 2) >>,
   helpNames |-> {}, groups |-> << >>, activeGroup |-> << >>,
   exitMode |-> "EXIT_RETURN",
   alphabet |-> { <<"x">>, <<"5">>, DashDash }]

\* The required flags -o and -n, then the scalar positionals r and o.
RegRequiredPair ==
  [options |-> << [NamedOpt(<<"-", "o">>, <<>>, "long", "a") EXCEPT !.isRequired = TRUE],
                  [NamedOpt(<<"-", "n">>, <<>>, "long", "b") EXCEPT !.isRequired = TRUE] >>,
   positional |-> << PositionalOpt(<<"r">>, "long", "c", FALSE),
                     PositionalOpt(<<"o">>, "long", "d", FALSE) >>,
   helpNames |-> {}, groups |-> << >>, activeGroup |-> << >>,
   exitMode |-> "EXIT_RETURN",
   alphabet |-> { <<"-", "o">>, <<"-", "n">>, <<"5">> }]

\* Options with an assign-action, each with one long argument: -d with the
\* choices 5 and x and an action that returns nothing, -w with the choices
\* 5 and x and an action that returns 7, -e with the action of AssignAction.
RegActions ==
  [options |-> << [Option_setNArgs(NamedOpt(<<"-", "d">>, <<>>, "long", "a"), 1)
                     EXCEPT !.choices = { <<"5">>, <<"x">> }, !.action = "drop"],
                  [Option_setNArgs(NamedOpt(<<"-", "w">>, <<>>, "long", "b"), 1)
                     EXCEPT !.choices = { <<"5">>, <<"x">> }, !.action = "seven"],
                  [Option_setNArgs(NamedOpt(<<"-", "e">>, <<>>, "long", "c"), 1)
                     EXCEPT !.action = "same"] >>,
   positional |-> << >>,
   helpNames |-> {}, groups |-> << >>, activeGroup |-> << >>,
   exitMode |-> "EXIT_RETURN",
   alphabet |-> { <<"-", "d">>, <<"-", "w">>, <<"-", "e">>, <<"5">>, <<"x">>, <<"4">> }]

Registries ==
  {RegGroupOfShorts, RegLongOptions, RegChoices, RegArities, RegFlagValues,
   RegRequired, RegChoiceList, RegGroups, RegRequiredExclusive,
   RegVectorOption, RegPositionals, RegRequiredPair, RegActions}

\* The callers of the registries with three tokens build argument vectors
\* that are one token longer.
Budget ==
  IF alphabet \in {RegVectorOption.alphabet, RegPositionals.alphabet}
  THEN MaxArgs + 1 ELSE MaxArgs

DestIds == {"a", "b", "c", "d", "f", "k", "m", "n", "p", "q", "r", "v", "none"}

(***************************************************************************)
(* parse_args                                                              *)
(***************************************************************************)
\* add_help_option( "--help" ): the default help option without -h.
DefaultHelpOption_longOnly ==
  [NewOption EXCEPT !.long = HelpLong, !.conv = "void", !.group = mpActiveGroup]

\* The option add_help_option() registers: a VoidValue under --help and -h,
\* placed in the active group as tryAddArgument places every named option.
DefaultHelpOption ==
  [NewOption EXCEPT !.long = HelpLong, !.short = HelpShort, !.conv = "void",
                    !.group = mpActiveGroup]

\* Value::reset with a doReset that leaves the destination as it is.
ResetDest_keep(opts, d) == d

\* Value::reset of every option and positional: counters and destinations.
ResetDest(opts, d) ==
  [k \in DestIds |->
     IF \E i \in 1..Len(opts) : opts[i].dest = k /\ opts[i].conv # "void"
     THEN <<>> ELSE d[k]]

\* The destinations are variables of the program: it leaves them
\* value-initialized, or has given each of them the value 9.
InitialisedDest(opts) ==
  [k \in DestIds |->
     IF \E i \in 1..Len(opts) : opts[i].dest = k /\ opts[i].conv # "void"
     THEN LET i == CHOOSE i \in 1..Len(opts) : opts[i].dest = k /\ opts[i].conv # "void"
          IN  <<Convert(opts[i].conv, <<"9">>)>>
     ELSE <<>>]

Init ==
  /\ \E r \in Registries :
       /\ mOptions = r.options
       /\ mPositional = r.positional
       /\ mHelpOptionNames = r.helpNames
       /\ mGroups = r.groups
       /\ mpActiveGroup = r.activeGroup
       /\ exitMode = r.exitMode
       /\ alphabet = r.alphabet
       /\ optValues = [i \in 1..Len(r.options) |-> NewValue]
       /\ posValues = [i \in 1..Len(r.positional) |-> NewValue]
       /\ dest \in {[k \in DestIds |-> <<>>], InitialisedDest(r.options \o r.positional)}
  /\ args = <<>>
  /\ argIdx = 0
  /\ mIgnoreOptions = FALSE
  /\ mPosition = 0
  /\ mpActiveOption = 0
  /\ errors = <<>>
  /\ ignoredArguments = <<>>
  /\ setCalls = <<>>
  /\ stale = {}
  /\ pc = "idle"
  /\ exception = "none"
  /\ handle = NoHandle
  /\ lastCall = NoCall
  /\ described = NoDescription

\* The loop of parse_args over the arguments with a test of the first
\* argument only.
HelpRequested_firstOnly(a, names) == a # <<>> /\ a[1] \in names

\* The loop of parse_args over the arguments finds a help name.
HelpRequested(a, names) == \E i \in 1..Len(a) : a[i] \in names

\* The first help name of the argument vector, found by the loop of parse_args.
FirstHelp(a, names) ==
  LET i == CHOOSE i \in 1..Len(a) :
             a[i] \in names /\ \A j \in 1..(i - 1) : a[j] \notin names
  IN  a[i]

\* parse_args up to the construction of the Parser: the default help option,
\* verifyDefinedOptions, the reset of all values, the scan for a help name
\* with exit_parser, and Parser::parse up to its loop.
parse_args(a) ==
  /\ LET install == mHelpOptionNames = {}
         opts == IF install THEN Append(mOptions, DefaultHelpOption) ELSE mOptions
         vals == IF install THEN Append(optValues, NewValue) ELSE optValues
         names == IF install THEN {HelpLong, HelpShort} ELSE mHelpOptionNames
         help == HelpRequested(a, names)
     IN  /\ mOptions' = opts
         /\ stale' = IF pc = "idle" THEN {} ELSE {k \in DestIds : dest[k] # <<>>}
         /\ mHelpOptionNames' = names
         /\ args' = a
         /\ UNCHANGED <<mPositional, mGroups, mpActiveGroup, exitMode, alphabet, builder>>
         /\ IF VerifyFails(opts)
            THEN /\ pc' = "thrown"
                 /\ exception' = "RequiredExclusiveOption"
                 /\ optValues' = vals
                 /\ UNCHANGED <<posValues, dest, argIdx, mIgnoreOptions, mPosition,
                                mpActiveOption, errors, ignoredArguments, setCalls>>
            ELSE /\ optValues' = [i \in 1..Len(opts) |-> NewValue]
                 /\ posValues' = [i \in 1..Len(mPositional) |-> NewValue]
                 /\ dest' = ResetDest(opts \o mPositional, dest)
                 /\ mIgnoreOptions' = FALSE
                 /\ mPosition' = 0
                 /\ mpActiveOption' = 0
                 /\ ignoredArguments' = <<>>
                 /\ setCalls' = <<>>
                 /\ IF help
                    THEN /\ argIdx' = 0
                         /\ IF exitMode = "EXIT_RETURN"
                            THEN /\ pc' = "returned"
                                 /\ exception' = "none"
                                 /\ errors' = <<ParseError(FirstHelp(a, names), "HELP_REQUESTED")>>
                            ELSE /\ pc' = IF exitMode = "EXIT_THROW" THEN "thrown" ELSE "exited"
                                 /\ exception' = IF exitMode = "EXIT_THROW"
                                                 THEN "ParserTerminated" ELSE "none"
                                 /\ errors' = <<>>
                    ELSE /\ argIdx' = 1
                         /\ pc' = "parsing"
                         /\ exception' = "none"
                         /\ errors' = <<>>

\* A call of parse_args by the program, after construction or after an
\* earlier call has returned or thrown.
ParseArgs ==
  /\ pc \in {"idle", "returned", "thrown"}
  /\ \E n \in 0..(Budget - Len(args)) : \E a \in [1..n -> alphabet] : parse_args(a)

ParserState ==
  [O |-> optValues, P |-> posValues, dest |-> dest, errors |-> errors,
   free |-> ignoredArguments, active |-> mpActiveOption, position |-> mPosition,
   ignore |-> mIgnoreOptions, calls |-> setCalls, tok |-> argIdx, exc |-> "none"]

Commit(st) ==
  /\ optValues' = st.O
  /\ posValues' = st.P
  /\ dest' = st.dest
  /\ errors' = st.errors
  /\ ignoredArguments' = st.free
  /\ mpActiveOption' = st.active
  /\ mPosition' = st.position
  /\ mIgnoreOptions' = st.ignore
  /\ setCalls' = st.calls
  /\ exception' = st.exc

\* One iteration of the loop of Parser::parse.
ParseToken ==
  /\ pc = "parsing"
  /\ argIdx <= Len(args)
  /\ \E st \in {Parser_parseToken(ParserState, args[argIdx])} :
       /\ Commit(st)
       /\ pc' = IF st.exc # "none" THEN "thrown" ELSE "parsing"
       /\ argIdx' = IF st.exc # "none" THEN argIdx ELSE argIdx + 1
  /\ UNCHANGED <<registry, builder, args, stale>>

\* The end of Parser::parse: the active option is closed.
EndOfInput ==
  /\ pc = "parsing"
  /\ argIdx > Len(args)
  /\ \E st \in {Parser_closeOption(ParserState)} :
       /\ Commit(st)
       /\ pc' = IF st.exc # "none" THEN "thrown" ELSE "validating"
  /\ UNCHANGED <<registry, builder, args, argIdx, stale>>

\* The validation pass of parse_args and its return.
Validate ==
  /\ pc = "validating"
  /\ errors' = errors \o reportMissingOptions(optValues, posValues)
                      \o reportExclusiveViolations(optValues)
                      \o reportMissingGroups(optValues)
  /\ pc' = "returned"
  /\ UNCHANGED <<registry, builder, optValues, posValues, dest, args, argIdx, mIgnoreOptions,
                 mPosition, mpActiveOption, ignoredArguments, setCalls, stale, exception>>

Next ==
  \/ ParseArgs
  \/ ParseToken
  \/ EndOfInput
  \/ Validate

Spec == Init /\ [][Next]_vars

(***************************************************************************)
(* Declarations.  add_argument, the arity calls of the OptionConfig it     *)
(* returns, and the group calls, as the program makes them before it       *)
(* parses.                                                                 *)
(***************************************************************************)
\* The number of arguments the program declares.
MaxDecls == 1

\* The largest count the program passes to nargs, minargs and maxargs.
MaxCount == 3

\* The names the program passes to add_argument.
Names ==
  { <<>>, <<"f">>, <<"-", "a">>, <<"-", "-", "a", "l", "l">>, <<"-", "a", "b">>,
    Dash, DashDash, <<"a", " ", "b">> }

CountCalls == {"nargs", "minargs", "maxargs"}

\* A name without whitespace passes this test.
ContainsSpace_never(name) == FALSE

\* The test of tryAddArgument for whitespace in a name.
ContainsSpace(name) == \E i \in 1..Len(name) : isspace(name[i])

has_dash(name) == name[1] = "-"

\* argument_parser::trySetNames from the k-th name on: the option as the
\* names set it, and the exception that ends the call.
RECURSIVE trySetNames(_, _, _)
trySetNames(option, names, k) ==
  IF k > Len(names)
  THEN [option |-> option,
        exc |-> IF Option_getName(option) = <<>> THEN "invalid_argument" ELSE "none"]
  ELSE LET name == names[k]
       IN  IF name = <<>> \/ name = Dash \/ name = DashDash \/ name[1] # "-"
           THEN trySetNames(option, names, k + 1)
           ELSE IF StartsWith(name, DashDash)
           THEN trySetNames([option EXCEPT !.long = name], names, k + 1)
           ELSE IF Len(name) > 2
           THEN [option |-> option, exc |-> "invalid_argument"]
           ELSE trySetNames([option EXCEPT !.short = name], names, k + 1)

\* The group of a new positional when every active group takes it.
PositionalGroup_anyGroup == mpActiveGroup

\* The group tryAddArgument gives a new positional: the active group, unless
\* it is exclusive.
PositionalGroup ==
  IF mpActiveGroup # <<>> /\ ~GroupOf(mpActiveGroup).isExclusive
  THEN mpActiveGroup ELSE <<>>

\* argument_parser::tryAddArgument on the lists opts and pos: the lists
\* after the call, the OptionConfig it returns and the exception it throws.
\* The option is in mOptions before trySetNames looks at its names, and
\* stays there when trySetNames throws.
tryAddArgument(opts, pos, newOption, allNames) ==
  LET names == SelectSeq(allNames, LAMBDA n : n # <<>>)
      failed == [options |-> opts, positional |-> pos, handle |-> NoHandle,
                 exc |-> "invalid_argument"]
  IN  IF names = <<>> THEN failed
      ELSE IF \E k \in 1..Len(names) : ContainsSpace(names[k]) THEN failed
      ELSE IF \A k \in 1..Len(names) : ~has_dash(names[k])
      THEN LET o == PositionalOpt(names[1], newOption.conv, newOption.dest,
                                  newOption.isVector)
               g == PositionalGroup
           IN  [options |-> opts,
                positional |-> Append(pos, [o EXCEPT !.group = g]),
                handle |-> [list |-> "pos", index |-> Len(pos) + 1, mCountWasSet |-> FALSE],
                exc |-> "none"]
      ELSE IF \A k \in 1..Len(names) : has_dash(names[k])
      THEN LET r == trySetNames(newOption, names, 1)
           IN  IF r.exc # "none"
               THEN [failed EXCEPT !.options = Append(opts, r.option)]
               ELSE [options |-> Append(opts, [r.option EXCEPT !.group = mpActiveGroup]),
                     positional |-> pos,
                     handle |-> [list |-> "opt", index |-> Len(opts) + 1,
                                 mCountWasSet |-> FALSE],
                     exc |-> "none"]
      ELSE failed

\* The option an OptionConfig refers to.
OptionOf(h, opts, pos) == IF h.list = "opt" THEN opts[h.index] ELSE pos[h.index]

\* OptionConfig::ensureCountWasNotSet never throwing.
OptionConfig_ensureCountWasNotSet_never(h) == FALSE

\* OptionConfig::ensureCountWasNotSet: TRUE when it throws.
OptionConfig_ensureCountWasNotSet(h) == h.mCountWasSet

\* The setter of Option that nargs, minargs or maxargs calls.
OptionConfig_setCount(opt, method, count) ==
  CASE method = "nargs" -> Option_setNArgs(opt, count)
    [] method = "minargs" -> Option_setMinArgs(opt, count)
    [] method = "maxargs" -> Option_setMaxArgs(opt, count)

\* What the declaration calls leave alone.
undeclared == <<mHelpOptionNames, exitMode, alphabet, parsing>>

\* add_argument( value, name, altName ) for a value of a scalar or a vector.
add_argument(name, altName, isVector) ==
  /\ LET r == tryAddArgument(mOptions, mPositional,
                             [NewOption EXCEPT !.isVector = isVector], <<name, altName>>)
     IN  /\ mOptions' = r.options
         /\ mPositional' = r.positional
         /\ optValues' = [i \in 1..Len(r.options) |-> NewValue]
         /\ posValues' = [i \in 1..Len(r.positional) |-> NewValue]
         /\ handle' = IF r.exc = "none" THEN r.handle ELSE handle
         /\ exception' = r.exc
  /\ lastCall' = [op |-> "add_argument", names |-> <<name, altName>>]
  /\ UNCHANGED <<undeclared, mGroups, mpActiveGroup, described>>

\* add_argument while the program has declarations left to make.
AddArgument(name, altName, isVector) ==
  /\ Len(mOptions) + Len(mPositional) < MaxDecls
  /\ add_argument(name, altName, isVector)

\* OptionConfig::nargs, minargs and maxargs on the handle the program holds.
SetCount(method, count) ==
  /\ handle # NoHandle
  /\ lastCall' = [op |-> method, count |-> count]
  /\ IF OptionConfig_ensureCountWasNotSet(handle)
     THEN /\ exception' = "invalid_argument"
          /\ UNCHANGED <<mOptions, mPositional, handle>>
     ELSE /\ exception' = "none"
          /\ handle' = [handle EXCEPT !.mCountWasSet = TRUE]
          /\ IF handle.list = "opt"
             THEN /\ mOptions' = [mOptions EXCEPT
                                    ![handle.index] = OptionConfig_setCount(@, method, count)]
                  /\ UNCHANGED mPositional
             ELSE /\ mPositional' = [mPositional EXCEPT
                                       ![handle.index] = OptionConfig_setCount(@, method, count)]
                  /\ UNCHANGED mOptions
  /\ UNCHANGED <<undeclared, mGroups, mpActiveGroup, optValues, posValues, described>>

\* A parser as its constructor leaves it.
NewParser ==
  /\ mOptions = <<>>
  /\ mPositional = <<>>
  /\ mHelpOptionNames = {}
  /\ mGroups = <<>>
  /\ mpActiveGroup = <<>>
  /\ exitMode = "EXIT_TERMINATE"
  /\ alphabet = {}
  /\ optValues = <<>>
  /\ posValues = <<>>

\* No parse_args call was made.
NotParsed ==
  /\ dest = [k \in DestIds |-> <<>>]
  /\ args = <<>>
  /\ argIdx = 0
  /\ mIgnoreOptions = FALSE
  /\ mPosition = 0
  /\ mpActiveOption = 0
  /\ errors = <<>>
  /\ ignoredArguments = <<>>
  /\ setCalls = <<>>
  /\ stale = {}
  /\ pc = "idle"

InitDeclare ==
  /\ NewParser
  /\ NotParsed
  /\ exception = "none"
  /\ handle = NoHandle
  /\ lastCall = NoCall
  /\ described = NoDescription

NextDeclare ==
  \/ \E name \in Names, altName \in Names, isVector \in BOOLEAN :
       AddArgument(name, altName, isVector)
  \/ \E method \in CountCalls, count \in -1..MaxCount : SetCount(method, count)

SpecDeclare == InitDeclare /\ [][NextDeclare]_vars

(***************************************************************************)
(* Groups.  add_group, add_exclusive_group, end_group and the required     *)
(* call of the GroupConfig the first two return.                           *)
(***************************************************************************)
\* The names the program passes to add_group and add_exclusive_group.
GroupNames == { <<"i", "o">>, <<"I", "o">>, <<"I", "O">>, <<"a", "l", "l">>, <<"A", "l", "l">> }

\* argument_parser::findGroup comparing the name as it was given.
findGroup_caseSensitive(name) ==
  IF \E i \in 1..Len(mGroups) : mGroups[i].name = name THEN name ELSE <<>>

\* argument_parser::findGroup: the key of the group, <<>> when there is none.
findGroup(name) ==
  IF \E i \in 1..Len(mGroups) : mGroups[i].name = ToLower(name) THEN ToLower(name) ELSE <<>>

\* argument_parser::addGroup: mGroups[name] = pGroup puts the new group
\* under its lower-case name, in the place of a group of that name.
addGroup(name, isExclusive) ==
  LET key == ToLower(name)
      others == SelectSeq(mGroups, LAMBDA g : g.name # key)
  IN  SelectSeq(others, LAMBDA g : StringLess(g.name, key))
        \o << [name |-> key, isExclusive |-> isExclusive, isRequired |-> FALSE] >>
        \o SelectSeq(others, LAMBDA g : ~StringLess(g.name, key))

\* OptionGroup::setRequired as a plain assignment.
OptionGroup_setRequired_assign(group, isRequired) == [group EXCEPT !.isRequired = isRequired]

\* OptionGroup::setRequired
OptionGroup_setRequired(group, isRequired) ==
  IF ~group.isRequired THEN [group EXCEPT !.isRequired = isRequired] ELSE group

\* What the group calls leave alone.
ungrouped == <<mOptions, mPositional, optValues, posValues, handle, described, undeclared>>

\* add_group( name ) for isExclusive = FALSE, add_exclusive_group( name )
\* for isExclusive = TRUE.
DeclareGroup(op, name, isExclusive) ==
  /\ lastCall' = [op |-> op, name |-> name]
  /\ LET key == findGroup(name)
     IN  IF key # <<>>
         THEN IF GroupOf(key).isExclusive # isExclusive
              THEN /\ exception' = "MixingGroupTypes"
                   /\ UNCHANGED <<mGroups, mpActiveGroup>>
              ELSE /\ exception' = "none"
                   /\ mpActiveGroup' = key
                   /\ UNCHANGED mGroups
         ELSE /\ exception' = "none"
              /\ mGroups' = addGroup(name, isExclusive)
              /\ mpActiveGroup' = ToLower(name)
  /\ UNCHANGED ungrouped

AddGroup(name) == DeclareGroup("add_group", name, FALSE)

AddExclusiveGroup(name) == DeclareGroup("add_exclusive_group", name, TRUE)

EndGroup ==
  /\ lastCall' = [op |-> "end_group"]
  /\ mpActiveGroup' = <<>>
  /\ exception' = "none"
  /\ UNCHANGED <<mGroups, ungrouped>>

\* GroupConfig::required on a GroupConfig the program got for group i.
GroupRequired(i, isRequired) ==
  /\ lastCall' = [op |-> "required", name |-> mGroups[i].name, isRequired |-> isRequired]
  /\ mGroups' = [mGroups EXCEPT ![i] = OptionGroup_setRequired(@, isRequired)]
  /\ exception' = "none"
  /\ UNCHANGED <<mpActiveGroup, ungrouped>>

InitGroups == InitDeclare

NextGroups ==
  \/ \E name \in GroupNames : AddGroup(name)
  \/ \E name \in GroupNames : AddExclusiveGroup(name)
  \/ EndGroup
  \/ \E i \in 1..Len(mGroups), isRequired \in BOOLEAN : GroupRequired(i, isRequired)

SpecGroups == InitGroups /\ [][NextGroups]_vars

(***************************************************************************)
(* Descriptions.  describe_argument on a parser with one declared          *)
(* argument, whose OptionConfig the program holds.                         *)
(***************************************************************************)
\* The names of the argument that is described.
DescribedNames ==
  { << <<"i", "n">>, <<>> >>,
    << <<"-", "v">>, <<>> >>,
    << <<"-", "o">>, <<"-", "-", "o", "u", "t">> >> }

\* The metavar the program sets.
Metavars == { <<"w">> }

\* The names the program asks describe_argument about.
AskedNames == { <<"i", "n">>, <<"-", "v">>, <<"-", "o">>, <<"-", "-", "o", "u", "t">>, Bogus }

\* The metavar min times, separated by nothing.
Repeated_noSpace(metavar, mmin) ==
  [i \in 1..(mmin * Len(metavar)) |-> metavar[((i - 1) % Len(metavar)) + 1]]

\* The loop of describeOption: the metavar min times, separated by spaces.
Repeated(metavar, mmin) ==
  IF mmin > 0
  THEN [i \in 1..(mmin * (Len(metavar) + 1) - 1) |->
          IF i % (Len(metavar) + 1) = 0 THEN " " ELSE metavar[i % (Len(metavar) + 1)]]
  ELSE <<>>

\* ArgumentHelpResult::arguments as describeOption builds it.
describeArguments(metavar, mmin, mmax) ==
  LET res == Repeated(metavar, mmin)
      open == IF res = <<>> THEN <<"[">> ELSE <<" ", "[">>
  IN  IF mmax < mmin
      THEN res \o open \o metavar \o <<" ", ".", ".", ".", "]">>
      ELSE IF mmax - mmin = 1
      THEN res \o <<"[">> \o metavar \o <<"]">>
      ELSE IF mmax > mmin
      THEN res \o open \o metavar \o <<" ", "{", "0", ".", ".">>
               \o to_string(mmax - mmin) \o <<"}", "]">>
      ELSE res

\* argument_parser::describeOption
describeOption(option) ==
  [short_name |-> option.short,
   long_name |-> option.long,
   required |-> option.isRequired,
   arguments |-> IF Option_acceptsAnyArguments(option)
                 THEN describeArguments(Option_getMetavar(option), option.minArgs,
                                        option.maxArgs)
                 ELSE <<>>,
   group |-> option.group]

\* The list describe_argument searches for the name.
DescribedList(name) == IF StartsWith(name, Dash) THEN mOptions ELSE mPositional

\* The first definition of the list that has the name, 0 when there is none.
DescribedIndex(name) ==
  LET list == DescribedList(name)
  IN  IF \E i \in 1..Len(list) : Option_hasName(list[i], name)
      THEN CHOOSE i \in 1..Len(list) :
             /\ Option_hasName(list[i], name)
             /\ \A j \in 1..(i - 1) : ~Option_hasName(list[j], name)
      ELSE 0

\* describe_argument( name )
DescribeArgument(name) ==
  /\ lastCall' = [op |-> "describe_argument", name |-> name]
  /\ IF DescribedIndex(name) = 0
     THEN /\ exception' = "invalid_argument"
          /\ UNCHANGED described
     ELSE LET option == DescribedList(name)[DescribedIndex(name)]
          IN  IF Option_acceptsAnyArguments(option) /\ Option_getMetavarThrows(option)
              THEN /\ exception' = "out_of_range"
                   /\ UNCHANGED described
              ELSE /\ exception' = "none"
                   /\ described' = describeOption(option)
  /\ UNCHANGED <<mOptions, mPositional, optValues, posValues, mGroups, mpActiveGroup,
                 handle, undeclared>>

\* OptionConfig::metavar on the handle the program holds.
SetMetavar(varname) ==
  /\ handle # NoHandle
  /\ lastCall' = [op |-> "metavar", varname |-> varname]
  /\ exception' = "none"
  /\ IF handle.list = "opt"
     THEN /\ mOptions' = [mOptions EXCEPT ![handle.index].metavar = varname]
          /\ UNCHANGED mPositional
     ELSE /\ mPositional' = [mPositional EXCEPT ![handle.index].metavar = varname]
          /\ UNCHANGED mOptions
  /\ UNCHANGED <<undeclared, mGroups, mpActiveGroup, optValues, posValues, handle, described>>

\* The program has declared one argument on a new parser.
InitDescribe ==
  /\ mHelpOptionNames = {}
  /\ mGroups = <<>>
  /\ mpActiveGroup = <<>>
  /\ exitMode = "EXIT_TERMINATE"
  /\ alphabet = {}
  /\ NotParsed
  /\ \E names \in DescribedNames, isVector \in BOOLEAN :
       LET r == tryAddArgument(<<>>, <<>>, [NewOption EXCEPT !.isVector = isVector], names)
       IN  /\ mOptions = r.options
           /\ mPositional = r.positional
           /\ optValues = [i \in 1..Len(r.options) |-> NewValue]
           /\ posValues = [i \in 1..Len(r.positional) |-> NewValue]
           /\ handle = r.handle
           /\ exception = r.exc
           /\ lastCall = [op |-> "add_argument", names |-> names]
  /\ described = NoDescription

NextDescribe ==
  \/ \E method \in CountCalls, count \in -1..MaxCount : SetCount(method, count)
  \/ \E varname \in Metavars : SetMetavar(varname)
  \/ \E name \in AskedNames : DescribeArgument(name)

SpecDescribe == InitDescribe /\ [][NextDescribe]_vars

(***************************************************************************)
(* Named options declared under two names of the same or of different      *)
(* forms.                                                                  *)
(***************************************************************************)
\* The names the program passes to add_argument for a named option.
OptionNames ==
  { <<>>, <<"-", "a">>, <<"-", "b">>, <<"-", "-", "a", "l", "l">>,
    <<"-", "-", "a", "n", "y">> }

InitNames == InitDeclare

NextNames ==
  \/ \E name \in OptionNames, altName \in OptionNames : AddArgument(name, altName, FALSE)
  \/ \E method \in CountCalls, count \in -1..MaxCount : SetCount(method, count)

SpecNames == InitNames /\ [][NextNames]_vars

(***************************************************************************)
(* Members of groups.  add_argument between add_group,                     *)
(* add_exclusive_group and end_group.                                      *)
(***************************************************************************)
\* The number of arguments the program declares in and around its groups.
MaxMembers == 2

\* The names of the arguments and of the groups.
MemberNames == { <<"f">>, <<"-", "a">>, <<"-", "b">> }

MemberGroups == { <<"i", "o">>, <<"a", "l", "l">> }

\* add_argument( value, name ) while the program has members left to declare.
AddMember(name) ==
  /\ Len(mOptions) + Len(mPositional) < MaxMembers
  /\ add_argument(name, <<>>, FALSE)

InitMembers == InitDeclare

NextMembers ==
  \/ \E name \in MemberGroups : AddGroup(name)
  \/ \E name \in MemberGroups : AddExclusiveGroup(name)
  \/ EndGroup
  \/ \E name \in MemberNames : AddMember(name)

SpecMembers == InitMembers /\ [][NextMembers]_vars

(***************************************************************************)
(* Vocabulary of the properties                                            *)
(***************************************************************************)
\* The loop of Parser::parse is about to handle the token args[argIdx].
TokenStep == pc = "parsing" /\ argIdx <= Len(args)

CurToken == args[argIdx]

\* The calls of Option::setValue and the errors a step adds.
NewCalls == SubSeq(setCalls', Len(setCalls) + 1, Len(setCalls'))

NewErrors == SubSeq(errors', Len(errors) + 1, Len(errors'))

CountErrors(errs, code) == Len(SelectSeq(errs, LAMBDA e : e.errorCode = code))

FailedCalls(calls) == Len(SelectSeq(calls, LAMBDA c : c.exc # "none"))

ActiveAccepts ==
  /\ mpActiveOption # 0
  /\ Option_willAcceptArgument(mOptions[mpActiveOption], optValues[mpActiveOption])

\* The step hands the token to a positional, or appends it to the free
\* arguments.
RoutedAsFree(token) ==
  \/ /\ Len(NewCalls) = 1
     /\ NewCalls[1].ref[1] = "pos"
     /\ NewCalls[1].value = token
     /\ ignoredArguments' = ignoredArguments
  \/ /\ NewCalls = <<>>
     /\ ignoredArguments' = Append(ignoredArguments, token)

\* The token is one option-start event: a long option or a two-character
\* short option, with or without an =value suffix.
SingleStart(token) ==
  /\ token # DashDash
  /\ StartsWith(token, DashDash) \/ (StartsWith(token, Dash) /\ Len(token) = 2)

\* The token is a group of short options.
ShortGroup(token) ==
  StartsWith(token, Dash) /\ ~StartsWith(token, DashDash) /\ Len(token) > 2

\* The name and the =value suffix of an option-start token.
NameOf(token) ==
  IF Find(token, "=") # 0 THEN SubSeq(token, 1, Find(token, "=") - 1) ELSE token

SuffixOf(token) ==
  IF Find(token, "=") # 0 THEN SubSeq(token, Find(token, "=") + 1, Len(token)) ELSE <<>>

\* The step handles a single option-start token outside ignore mode.
StartStep == TokenStep /\ ~mIgnoreOptions /\ SingleStart(CurToken)

\* The step handles a dash-free token, outside ignore mode, that follows a
\* single option-start token.
PlainAfterStart ==
  /\ TokenStep /\ ~mIgnoreOptions /\ ~StartsWith(CurToken, Dash)
  /\ argIdx > 1 /\ SingleStart(args[argIdx - 1])

\* The option can be handed the value: it is a choice and it converts.
Acceptable(opt, value) ==
  /\ opt.choices = {} \/ value \in opt.choices
  /\ CanConvert(opt.conv, value)

(***************************************************************************)
(* C1  A conversion or choice failure of any assignment (a token, an       *)
(* =value suffix, a flag value applied when an option starts or is closed) *)
(* is recorded as a CONVERSION_ERROR or INVALID_CHOICE entry and never     *)
(* leaves parse as an exception: no parse ends with one of the exceptions  *)
(* of Option::setValue, and every failed assignment has its error entry.   *)
(***************************************************************************)
C1_FailuresNeverEscape ==
  /\ exception \notin {"InvalidChoiceError", "invalid_argument", "out_of_range"}
  /\ pc \in {"parsing", "validating"} =>
       FailedCalls(setCalls) = CountErrors(errors, "CONVERSION_ERROR")
                               + CountErrors(errors, "INVALID_CHOICE")

(***************************************************************************)
(* C2  A token without a dash prefix, outside ignore mode, is assigned to  *)
(* the active option when there is one that still accepts an argument, and *)
(* in every other case goes to a positional or to the free arguments: it   *)
(* is never discarded.                                                     *)
(***************************************************************************)
C2_PlainTokenNeverDiscarded ==
  [][ (TokenStep /\ ~mIgnoreOptions /\ ~StartsWith(CurToken, Dash)) =>
        IF ActiveAccepts
        THEN /\ NewCalls # <<>>
             /\ NewCalls[1].ref = <<"opt", mpActiveOption>>
             /\ NewCalls[1].value = CurToken
        ELSE RoutedAsFree(CurToken) ]_vars

(***************************************************************************)
(* C3  Once a bare -- has been seen, ignoreOptions stays true for the rest *)
(* of the parse call; no later token starts an option, assigns to a named  *)
(* option, or adds an UNKNOWN_OPTION or FLAG_PARAMETER error; and          *)
(* ignoreOptions is false again when the next parse call starts.           *)
(***************************************************************************)
C3_IgnoreOptionsIsPermanent ==
  [][ /\ (mIgnoreOptions /\ pc \in {"parsing", "validating"}) => mIgnoreOptions'
      /\ (TokenStep /\ mIgnoreOptions) =>
           /\ mpActiveOption' = mpActiveOption
           /\ optValues' = optValues
           /\ \A k \in 1..Len(NewCalls) : NewCalls[k].ref[1] = "pos"
           /\ CountErrors(errors', "UNKNOWN_OPTION") = CountErrors(errors, "UNKNOWN_OPTION")
           /\ CountErrors(errors', "FLAG_PARAMETER") = CountErrors(errors, "FLAG_PARAMETER")
      /\ (pc \in {"idle", "returned", "thrown"} /\ pc' = "parsing") => ~mIgnoreOptions'
    ]_vars

\* A parse has returned in which a token naming a known option came after
\* the --, and another call of parse_args can follow.
C3_Witness ==
  /\ pc = "returned"
  /\ mIgnoreOptions
  /\ Len(args) < MaxArgs
  /\ \E i, j \in 1..Len(args) :
       i < j /\ args[i] = DashDash /\ Parser_findOption(args[j]) # 0

(***************************************************************************)
(* C4  In ignore-options mode every token is treated as a free argument    *)
(* (handed to a positional or appended to the free arguments), also an     *)
(* option-looking token and also a further -- token.                       *)
(***************************************************************************)
C4_IgnoreModeRoutesEveryToken ==
  [][ (TokenStep /\ mIgnoreOptions) => RoutedAsFree(CurToken) ]_vars

(***************************************************************************)
(* C5  A single-dash token of more than two characters is one option-start *)
(* event -c for each character c after the dash, in order: that one token  *)
(* assigns its flag value to every zero-arity member, in the order of the  *)
(* characters, and after it only the last member can be the active option  *)
(* (every other member was closed when the next one started), so only the  *)
(* last member can receive the following value token.                      *)
(***************************************************************************)
GroupMembers(token) == [k \in 1..(Len(token) - 1) |-> Parser_findOption(<<"-", token[k + 1]>>)]

IsFlag(i) == i # 0 /\ mOptions[i].minArgs = 0 /\ mOptions[i].maxArgs = 0

FlagCalls(calls) == SelectSeq(calls, LAMBDA c : c.ref[1] = "opt" /\ IsFlag(c.ref[2]))

C5_ShortGroupStartsEveryMember ==
  [][ (TokenStep /\ ~mIgnoreOptions /\ ShortGroup(CurToken)) =>
        LET members == GroupMembers(CurToken)
            flags == SelectSeq(members, IsFlag)
            calls == FlagCalls(NewCalls)
            last == members[Len(members)]
        IN  /\ Len(calls) = Len(flags)
            /\ \A k \in 1..Len(flags) :
                 /\ calls[k].ref = <<"opt", flags[k]>>
                 /\ calls[k].value = mOptions[flags[k]].flagValue
                 /\ calls[k].tok = argIdx
            /\ mpActiveOption' \in {0, last}
            /\ (last # 0 /\ ~IsFlag(last)) => mpActiveOption' = last ]_vars

(***************************************************************************)
(* C6  A token --name=value that starts a known option accepting arguments *)
(* assigns the suffix to that option, and the suffix counts toward the     *)
(* arity of the occurrence: with nargs(1) the occurrence is complete (the  *)
(* option is no longer active), with nargs(2) the option stays active for  *)
(* exactly one further token, and closing an occurrence whose suffix and   *)
(* tokens reach min adds no MISSING_ARGUMENT.                              *)
(***************************************************************************)
C6_SuffixCountsTowardArity ==
  [][ /\ (StartStep /\ SuffixOf(CurToken) # <<>> /\ Parser_findOption(NameOf(CurToken)) # 0) =>
           LET i == Parser_findOption(NameOf(CurToken))
               opt == mOptions[i]
           IN  opt.maxArgs # 0 =>
                 /\ \E k \in 1..Len(NewCalls) :
                      /\ NewCalls[k].ref = <<"opt", i>>
                      /\ NewCalls[k].value = SuffixOf(CurToken)
                 /\ optValues'[i].optionAssignCount = 1
                 /\ (opt.maxArgs = 1 => mpActiveOption' # i)
                 /\ (opt.maxArgs > 1 => mpActiveOption' = i)
      /\ (/\ PlainAfterStart /\ SuffixOf(args[argIdx - 1]) # <<>> /\ mpActiveOption # 0
          /\ mOptions[mpActiveOption].maxArgs = 2) =>
             /\ optValues'[mpActiveOption].optionAssignCount = 2
             /\ mpActiveOption' = 0
             /\ CountErrors(errors', "MISSING_ARGUMENT") = CountErrors(errors, "MISSING_ARGUMENT")
    ]_vars

(***************************************************************************)
(* C7  A token --opt=value whose --opt is a known option taking no         *)
(* arguments adds exactly one FLAG_PARAMETER error, for that name, never   *)
(* hands the text after = to the option, and leaves no active option.      *)
(***************************************************************************)
C7_FlagWithSuffix ==
  [][ (StartStep /\ SuffixOf(CurToken) # <<>> /\ Parser_findOption(NameOf(CurToken)) # 0) =>
        LET i == Parser_findOption(NameOf(CurToken))
        IN  mOptions[i].maxArgs = 0 =>
              /\ CountErrors(NewErrors, "FLAG_PARAMETER") = 1
              /\ errors'[Len(errors')] = ParseError(NameOf(CurToken), "FLAG_PARAMETER")
              /\ \A k \in 1..Len(NewCalls) : NewCalls[k].value # SuffixOf(CurToken)
              /\ mpActiveOption' = 0 ]_vars

(***************************************************************************)
(* C8  An option-start token whose name is not in the registry adds        *)
(* exactly one UNKNOWN_OPTION error, leaves no active option, and leaves   *)
(* position, ignoreOptions and every value unchanged apart from the        *)
(* closing of the option that was active; the token after it is routed as  *)
(* any other free token.                                                   *)
(***************************************************************************)
C8_UnknownOption ==
  [][ /\ (StartStep /\ Parser_findOption(NameOf(CurToken)) = 0) =>
           /\ CountErrors(NewErrors, "UNKNOWN_OPTION") = 1
           /\ errors'[Len(errors')] = ParseError(NameOf(CurToken), "UNKNOWN_OPTION")
           /\ mpActiveOption' = 0
           /\ mPosition' = mPosition
           /\ mIgnoreOptions' = mIgnoreOptions
           /\ posValues' = posValues
           /\ ignoredArguments' = ignoredArguments
           /\ \A i \in 1..Len(mOptions) : i # mpActiveOption => optValues'[i] = optValues[i]
           /\ \A k \in 1..Len(NewCalls) : NewCalls[k].ref = <<"opt", mpActiveOption>>
      /\ (PlainAfterStart /\ Parser_findOption(NameOf(args[argIdx - 1])) = 0) =>
           RoutedAsFree(CurToken)
    ]_vars

(***************************************************************************)
(* C9  Closing the active option, by the next option-start token or at the *)
(* end of the input: when its count of this occurrence is below min,       *)
(* exactly one MISSING_ARGUMENT naming it is added and its flag value is   *)
(* not applied; otherwise, when it would still accept an argument and got  *)
(* nothing in this occurrence, its flag value is applied exactly once;     *)
(* otherwise closing changes nothing.  The closing is observed on the      *)
(* steps whose token does not start the same option again; on every        *)
(* closing step of an under-supplied option the first error added is its   *)
(* MISSING_ARGUMENT.                                                       *)
(***************************************************************************)
StartsActiveAgain(token) ==
  IF ShortGroup(token)
  THEN \E k \in 2..Len(token) : Parser_findOption(<<"-", token[k]>>) = mpActiveOption
  ELSE Parser_findOption(NameOf(token)) = mpActiveOption

ClosingStep ==
  /\ pc = "parsing"
  /\ mpActiveOption # 0
  /\ \/ argIdx > Len(args)
     \/ /\ TokenStep /\ ~mIgnoreOptions
        /\ SingleStart(CurToken) \/ ShortGroup(CurToken)

LastWrite(calls, d) ==
  LET w == SelectSeq(calls, LAMBDA c : RefOption(c.ref).dest = d /\ c.exc = "none")
  IN  IF w = <<>> THEN <<>>
      ELSE <<Convert(RefOption(w[Len(w)].ref).conv, w[Len(w)].value)>>

C10_FlagStart ==
  [][ /\ (StartStep /\ SuffixOf(CurToken) = <<>> /\ IsFlag(Parser_findOption(CurToken))) =>
           LET i == Parser_findOption(CurToken)
               opt == mOptions[i]
           IN  /\ NewCalls # <<>>
               /\ NewCalls[Len(NewCalls)].ref = <<"opt", i>>
               /\ NewCalls[Len(NewCalls)].value = opt.flagValue
               /\ mpActiveOption' = 0
               /\ (CanConvert(opt.conv, opt.flagValue) /\ opt.conv # "void") =>
                    dest'[opt.dest] = <<Convert(opt.conv, opt.flagValue)>>
      /\ (PlainAfterStart /\ IsFlag(Parser_findOption(args[argIdx - 1]))) =>
           RoutedAsFree(CurToken)
      /\ pc \in {"parsing", "validating"} =>
           \A i \in 1..Len(mOptions) :
             (~mOptions[i].isVector /\ mOptions[i].conv # "void") =>
               dest[mOptions[i].dest] = LastWrite(setCalls, mOptions[i].dest)
    ]_vars

(***************************************************************************)
(* Vocabulary of the properties of values and results                      *)
(***************************************************************************)
SlotOf(ref) == IF ref[1] = "opt" THEN optValues[ref[2]] ELSE posValues[ref[2]]

SlotAfter(ref) == IF ref[1] = "opt" THEN optValues'[ref[2]] ELSE posValues'[ref[2]]

CallsOf(calls, ref) == SelectSeq(calls, LAMBDA c : c.ref = ref)

\* The value of the call is text of the token being handled: the token
\* itself or its =value suffix.
Supplied(c) == c.value = CurToken \/ c.value = SuffixOf(CurToken)

\* A value was stored through the option or positional during this parse.
AssignedThrough(ref) == \E k \in 1..Len(setCalls) : setCalls[k].ref = ref /\ setCalls[k].exc = "none"

CountOf(errs, e) == Len(SelectSeq(errs, LAMBDA x : x = e))

\* parse_args has tokenized the arguments, validated and returned its result.
ResultOfParse == pc = "returned" /\ argIdx > 0

\* Some required named option belongs to an exclusive group.
HasRequiredExclusive ==
  \E i \in 1..Len(mOptions) :
    /\ mOptions[i].isRequired
    /\ \E g \in 1..Len(mGroups) : mGroups[g].name = mOptions[i].group /\ mGroups[g].isExclusive

\* The program calls parse_args.
CallStep == pc \in {"idle", "returned", "thrown"}

(***************************************************************************)
(* C11  Value Slot setValue(raw), observed where a dash-free or free token *)
(* is handed to an option or positional: on successful conversion both     *)
(* assignCount and optionAssignCount increase by one; on conversion        *)
(* failure neither counter changes and hasErrors becomes true, so an       *)
(* option whose only supplied values failed conversion is not              *)
(* wasAssigned().                                                          *)
(***************************************************************************)
C11_CountersFollowConversion ==
  [][ (TokenStep /\ (mIgnoreOptions \/ ~StartsWith(CurToken, Dash)) /\ NewCalls # <<>>) =>
        LET c == NewCalls[1]
            v == SlotOf(c.ref)
            w == SlotAfter(c.ref)
        IN  /\ c.exc = "none" =>
                 /\ w.assignCount = v.assignCount + 1
                 /\ w.optionAssignCount = v.optionAssignCount + 1
            /\ c.exc = "invalid_argument" =>
                 /\ w.assignCount = v.assignCount
                 /\ w.optionAssignCount = v.optionAssignCount
                 /\ w.hasErrors
            /\ (\A k \in 1..Len(setCalls') :
                  setCalls'[k].ref = c.ref => setCalls'[k].exc = "invalid_argument") =>
                 ~Option_wasAssigned(w) ]_vars

(***************************************************************************)
(* C12  When an option has a choice set and the value supplied by a token  *)
(* is not a member: an INVALID_CHOICE error is recorded for the option,    *)
(* the destination is not modified, assignCount is unchanged and           *)
(* optionAssignCount increases by one (counted from zero when the token    *)
(* starts the option); the bad value counts as a consumed argument, and    *)
(* the flag value is not applied when that occurrence is closed, by the    *)
(* same token or by a later one.                                           *)
(***************************************************************************)
BadChoice(c) ==
  RefOption(c.ref).choices # {} /\ c.value \notin RefOption(c.ref).choices

C12_BadChoiceCountsAsArgument ==
  [][ /\ TokenStep =>
           \A k \in 1..Len(NewCalls) :
             LET c == NewCalls[k]
                 opt == RefOption(c.ref)
                 bad == SelectSeq(NewCalls, LAMBDA x : x.ref = c.ref /\ BadChoice(x) /\ Supplied(x))
             IN  (BadChoice(c) /\ Supplied(c)) =>
                   /\ c.exc = "InvalidChoiceError"
                   /\ CountOf(NewErrors, ParseError(Option_getName(opt), "INVALID_CHOICE")) = Len(bad)
                   /\ (\A j \in 1..Len(NewCalls) : j # k => RefOption(NewCalls[j].ref).dest # opt.dest) =>
                        /\ dest'[opt.dest] = dest[opt.dest]
                        /\ SlotAfter(c.ref).assignCount = SlotOf(c.ref).assignCount
                   /\ SlotAfter(c.ref).optionAssignCount =
                        (IF c.value = CurToken THEN SlotOf(c.ref).optionAssignCount ELSE 0) + 1
                   /\ \A j \in (k + 1)..Len(NewCalls) : NewCalls[j].ref # c.ref
      /\ (/\ ClosingStep
          /\ setCalls # <<>>
          /\ setCalls[Len(setCalls)].ref = <<"opt", mpActiveOption>>
          /\ setCalls[Len(setCalls)].tok = argIdx - 1
          /\ setCalls[Len(setCalls)].exc = "InvalidChoiceError"
          /\ (argIdx > Len(args) \/ ~StartsActiveAgain(CurToken))) =>
             /\ CallsOf(NewCalls, <<"opt", mpActiveOption>>) = <<>>
             /\ optValues'[mpActiveOption] = optValues[mpActiveOption]
             /\ dest'[mOptions[mpActiveOption].dest] = dest[mOptions[mpActiveOption].dest]
    ]_vars

\* An option that takes up to two choices was handed a value outside its
\* choices and was closed by a later option: it has an INVALID_CHOICE error,
\* an empty destination and no assignment.
C12_Witness ==
  /\ pc = "validating"
  /\ args # <<>>
  /\ StartsWith(args[Len(args)], Dash)
  /\ \E i \in 1..Len(mOptions) :
       /\ mOptions[i].choices # {}
       /\ mOptions[i].maxArgs > 1
       /\ optValues[i].hasErrors
       /\ optValues[i].assignCount = 0
       /\ optValues[i].optionAssignCount = 1
       /\ dest[mOptions[i].dest] = <<>>
       /\ CountOf(errors, ParseError(Option_getName(mOptions[i]), "INVALID_CHOICE")) = 1
       /\ Parser_findOption(args[Len(args)]) \notin {0, i}

(***************************************************************************)
(* C13  A conversion or choice failure on one token leaves every           *)
(* previously assigned value intact: at every point of a parse a scalar    *)
(* destination holds its last successfully converted value and a vector    *)
(* destination holds the values of all successful assignments, in order,   *)
(* and nothing for a failed one; the failure of a supplied value does not  *)
(* end the parse, which goes on to the next token, so that later valid     *)
(* tokens are still assigned.                                              *)
(***************************************************************************)
RECURSIVE Written(_, _)
Written(calls, d) ==
  IF calls = <<>> THEN <<>>
  ELSE LET c == calls[Len(calls)]
           opt == RefOption(c.ref)
           before == Written(SubSeq(calls, 1, Len(calls) - 1), d)
           given == IF opt.action # "none" THEN AssignAction_assign(opt.action, c.value)
                    ELSE <<c.value>>
       IN  IF opt.dest = d /\ opt.conv # "void" /\ c.exc = "none" /\ given # <<>>
           THEN IF opt.isVector THEN Append(before, Convert(opt.conv, given[1]))
                ELSE <<Convert(opt.conv, given[1])>>
           ELSE before

C13_FailuresAreLocal ==
  [][ /\ pc' \in {"parsing", "validating"} =>
           \A d \in DestIds : dest'[d] = Written(setCalls', d)
      /\ (TokenStep /\ \E k \in 1..Len(NewCalls) :
                         NewCalls[k].exc # "none" /\ Supplied(NewCalls[k])) =>
           /\ pc' = "parsing"
           /\ argIdx' = argIdx + 1
           /\ \A d \in DestIds :
                (\A k \in 1..Len(NewCalls) :
                   RefOption(NewCalls[k].ref).dest = d => NewCalls[k].exc # "none") =>
                  dest'[d] = dest[d]
    ]_vars

\* A vector destination holds two values, and between their assignments a
\* value for the same destination failed.
C13_Witness ==
  /\ pc = "validating"
  /\ \E i, j, k \in 1..Len(setCalls) :
       /\ i < j /\ j < k
       /\ setCalls[i].ref = setCalls[j].ref /\ setCalls[j].ref = setCalls[k].ref
       /\ RefOption(setCalls[i].ref).isVector
       /\ setCalls[i].exc = "none" /\ setCalls[j].exc # "none" /\ setCalls[k].exc = "none"
       /\ Len(dest[RefOption(setCalls[i].ref).dest]) = 2

(***************************************************************************)
(* C14  After tokenizing, the result contains exactly one MISSING_OPTION   *)
(* error for every required named option through which no value was        *)
(* assigned (an assignment through another definition of the same          *)
(* destination does not count) and none for an assigned or non-required    *)
(* option; and exactly one MISSING_ARGUMENT naming a positional for every  *)
(* positional that received fewer tokens than its min, none otherwise.     *)
(***************************************************************************)
C14_MissingOptions ==
  ResultOfParse =>
    /\ \A i \in 1..Len(mOptions) :
         CountOf(errors, ParseError(Option_getName(mOptions[i]), "MISSING_OPTION")) =
           IF mOptions[i].isRequired /\ ~AssignedThrough(<<"opt", i>>) THEN 1 ELSE 0
    /\ \A j \in 1..Len(mPositional) :
         CountOf(errors, ParseError(Option_getName(mPositional[j]), "MISSING_ARGUMENT")) =
           IF Len(CallsOf(setCalls, <<"pos", j>>)) < mPositional[j].minArgs THEN 1 ELSE 0

(***************************************************************************)
(* C15  For each exclusive group the result contains exactly one           *)
(* EXCLUSIVE_OPTION error if two or more distinct member options were      *)
(* assigned, and it names the first-declared assigned member; it contains  *)
(* no EXCLUSIVE_OPTION error for the group if at most one member was       *)
(* assigned, however often.                                                *)
(***************************************************************************)
\* The named options of the group through which a value was assigned, in
\* declaration order.
AssignedOfGroup(g) ==
  SelectSeq(Indices(Len(mOptions)),
            LAMBDA i : mOptions[i].group = mGroups[g].name /\ AssignedThrough(<<"opt", i>>))

\* The EXCLUSIVE_OPTION errors that name a member of the group.
ExclusiveErrors(g) ==
  SelectSeq(errors, LAMBDA e : /\ e.errorCode = "EXCLUSIVE_OPTION"
                               /\ \E i \in 1..Len(mOptions) :
                                    /\ mOptions[i].group = mGroups[g].name
                                    /\ Option_getName(mOptions[i]) = e.option)

C15_ExclusiveViolations ==
  ResultOfParse =>
    \A g \in 1..Len(mGroups) :
      mGroups[g].isExclusive =>
        IF Len(AssignedOfGroup(g)) > 1
        THEN /\ Len(ExclusiveErrors(g)) = 1
             /\ ExclusiveErrors(g)[1].option = Option_getName(mOptions[AssignedOfGroup(g)[1]])
        ELSE ExclusiveErrors(g) = <<>>

(***************************************************************************)
(* C16  For every group marked required, exclusive or not, the result      *)
(* contains a MISSING_OPTION_GROUP error for it exactly when none of its   *)
(* members, named options and positionals placed in the group, was         *)
(* assigned during the parse.                                              *)
(***************************************************************************)
MemberAssigned(g) ==
  \/ \E i \in 1..Len(mOptions) :
       mOptions[i].group = mGroups[g].name /\ AssignedThrough(<<"opt", i>>)
  \/ \E j \in 1..Len(mPositional) :
       mPositional[j].group = mGroups[g].name /\ AssignedThrough(<<"pos", j>>)

C16_MissingGroups ==
  ResultOfParse =>
    \A g \in 1..Len(mGroups) :
      mGroups[g].isRequired =>
        CountOf(errors, ParseError(mGroups[g].name, "MISSING_OPTION_GROUP")) =
          IF MemberAssigned(g) THEN 0 ELSE 1

(***************************************************************************)
(* C17  parse_args on a registry in which some required named option       *)
(* belongs to an exclusive group raises RequiredExclusiveOption before any *)
(* value is reset and before any token is processed, for every input, the  *)
(* empty input and inputs with a help token included; a registry without   *)
(* such an option never raises it.                                         *)
(***************************************************************************)
C17_RequiredExclusiveIsRaisedFirst ==
  [][ /\ (CallStep /\ HasRequiredExclusive) =>
           /\ pc' = "thrown"
           /\ exception' = "RequiredExclusiveOption"
           /\ dest' = dest
           /\ posValues' = posValues
           /\ \A i \in 1..Len(optValues) : optValues'[i] = optValues[i]
           /\ errors' = errors
           /\ ignoredArguments' = ignoredArguments
           /\ setCalls' = setCalls
           /\ argIdx' = argIdx
      /\ ~HasRequiredExclusive => exception' # "RequiredExclusiveOption"
    ]_vars

\* parse_args has raised RequiredExclusiveOption for an input with a help
\* token, and the destinations still hold the values the program gave them.
C17_Witness ==
  /\ pc = "thrown"
  /\ exception = "RequiredExclusiveOption"
  /\ \E i \in 1..Len(args) : args[i] \in mHelpOptionNames
  /\ \E i \in 1..Len(mOptions) :
       mOptions[i].isRequired /\ dest[mOptions[i].dest] # <<>>
  /\ setCalls = <<>>

(***************************************************************************)
(* C18  On a valid registry, if any token is verbatim equal to a           *)
(* registered help name, wherever it stands, parse_args does no tokenizing *)
(* and no validation: under the return policy the result has no free       *)
(* arguments and exactly one error, (that token, HELP_REQUESTED); under    *)
(* the throw policy ParserTerminated is raised instead.  If no token is a  *)
(* help name, HELP_REQUESTED never appears in the result.                  *)
(***************************************************************************)
HelpTokens(a, names) == {a[i] : i \in 1..Len(a)} \cap names

C18_HelpInterception ==
  [][ /\ (CallStep /\ ~HasRequiredExclusive /\ HelpTokens(args', mHelpOptionNames') # {}) =>
           /\ setCalls' = <<>>
           /\ pc' # "parsing"
           /\ exitMode = "EXIT_RETURN" =>
                /\ pc' = "returned"
                /\ ignoredArguments' = <<>>
                /\ Len(errors') = 1
                /\ errors'[1].errorCode = "HELP_REQUESTED"
                /\ errors'[1].option \in HelpTokens(args', mHelpOptionNames')
           /\ exitMode = "EXIT_THROW" =>
                pc' = "thrown" /\ exception' = "ParserTerminated"
      /\ (CallStep /\ ~HasRequiredExclusive /\ HelpTokens(args', mHelpOptionNames') = {}) =>
           pc' = "parsing"
      /\ HelpTokens(args', mHelpOptionNames') = {} =>
           CountErrors(errors', "HELP_REQUESTED") = 0
    ]_vars

\* Under the return policy the result is the single HELP_REQUESTED error of
\* a help token that stands directly after a bare --.
C18_Witness ==
  /\ pc = "returned"
  /\ Len(errors) = 1
  /\ errors[1].errorCode = "HELP_REQUESTED"
  /\ ignoredArguments = <<>>
  /\ \E i \in 2..Len(args) :
       /\ args[i] = errors[1].option
       /\ args[i - 1] = DashDash
       /\ \A j \in 1..(i - 1) : args[j] \notin mHelpOptionNames

(***************************************************************************)
(* C19  Parsing A and then B on the same registry yields the same          *)
(* ParseResult, the same destination values and the same slot counters as  *)
(* parsing B alone on a freshly built identical registry: the outcome of   *)
(* every call of parse_args, a first or a later one, is the outcome of B   *)
(* computed from fresh values, position 0, ignoreOptions false, no active  *)
(* option, no errors and no free arguments.                                *)
(***************************************************************************)
FreshParser ==
  [O |-> [i \in 1..Len(mOptions) |-> NewValue],
   P |-> [j \in 1..Len(mPositional) |-> NewValue],
   dest |-> [k \in DestIds |-> <<>>], errors |-> <<>>, free |-> <<>>, active |-> 0,
   position |-> 0, ignore |-> FALSE, calls |-> <<>>, tok |-> 1, exc |-> "none"]

\* The loop of Parser::parse from token i on, and the closing at its end.
RECURSIVE ParseFrom(_, _, _)
ParseFrom(st, a, i) ==
  IF st.exc # "none" THEN st
  ELSE IF i > Len(a) THEN Parser_closeOption([st EXCEPT !.tok = i])
  ELSE ParseFrom(Parser_parseToken([st EXCEPT !.tok = i], a[i]), a, i + 1)

\* The outcome of parse_args(a) on the registry with fresh values.
ParseAlone(a) ==
  LET st == ParseFrom(FreshParser, a, 1)
      fresh == FreshParser
  IN  IF \E i \in 1..Len(a) : a[i] \in mHelpOptionNames
      THEN [pc |-> CASE exitMode = "EXIT_RETURN" -> "returned"
                     [] exitMode = "EXIT_THROW" -> "thrown"
                     [] OTHER -> "exited",
            exception |-> IF exitMode = "EXIT_THROW" THEN "ParserTerminated" ELSE "none",
            errors |-> IF exitMode = "EXIT_RETURN"
                       THEN <<ParseError(FirstHelp(a, mHelpOptionNames), "HELP_REQUESTED")>>
                       ELSE <<>>,
            free |-> <<>>, dest |-> fresh.dest, O |-> fresh.O, P |-> fresh.P]
      ELSE [pc |-> IF st.exc # "none" THEN "thrown" ELSE "returned",
            exception |-> st.exc,
            errors |-> IF st.exc # "none" THEN st.errors
                       ELSE st.errors \o reportMissingOptions(st.O, st.P)
                                      \o reportExclusiveViolations(st.O)
                                      \o reportMissingGroups(st.O),
            free |-> st.free, dest |-> st.dest, O |-> st.O, P |-> st.P]

Outcome ==
  [pc |-> pc, exception |-> exception, errors |-> errors, free |-> ignoredArguments,
   dest |-> dest, O |-> optValues, P |-> posValues]

C19_ReparseEqualsFreshParse ==
  pc \in {"returned", "thrown", "exited"} =>
    IF HasRequiredExclusive
    THEN /\ pc = "thrown" /\ exception = "RequiredExclusiveOption"
         /\ optValues = FreshParser.O /\ posValues = FreshParser.P
    ELSE Outcome = ParseAlone(args)

\* A call of parse_args has returned its validated result, and a destination
\* that held a value of the call before it is empty.
C19_Witness ==
  /\ ResultOfParse
  /\ \E k \in stale : dest[k] = <<>>
  /\ \E k \in DestIds : dest[k] # <<>>

(***************************************************************************)
(* C20  For every valid registry, parsing the empty token list yields no   *)
(* free arguments and no errors other than MISSING_OPTION, exactly one for *)
(* every required named option, MISSING_ARGUMENT, exactly one for every    *)
(* positional with min > 0, and MISSING_OPTION_GROUP, at most one for a    *)
(* required group; no destination is assigned.                             *)
(***************************************************************************)
C20_EmptyInput ==
  (pc = "returned" /\ args = <<>>) =>
    /\ ignoredArguments = <<>>
    /\ setCalls = <<>>
    /\ \A k \in DestIds : dest[k] = <<>>
    /\ \A k \in 1..Len(errors) :
         errors[k].errorCode \in {"MISSING_OPTION", "MISSING_ARGUMENT", "MISSING_OPTION_GROUP"}
    /\ \A i \in 1..Len(mOptions) :
         CountOf(errors, ParseError(Option_getName(mOptions[i]), "MISSING_OPTION")) =
           IF mOptions[i].isRequired THEN 1 ELSE 0
    /\ CountErrors(errors, "MISSING_OPTION") =
         Cardinality({i \in 1..Len(mOptions) : mOptions[i].isRequired})
    /\ \A j \in 1..Len(mPositional) :
         CountOf(errors, ParseError(Option_getName(mPositional[j]), "MISSING_ARGUMENT")) =
           IF mPositional[j].minArgs > 0 THEN 1 ELSE 0
    /\ CountErrors(errors, "MISSING_ARGUMENT") =
         Cardinality({j \in 1..Len(mPositional) : mPositional[j].minArgs > 0})
    /\ \A k \in 1..Len(errors) :
         errors[k].errorCode = "MISSING_OPTION_GROUP" =>
           /\ \E g \in 1..Len(mGroups) : mGroups[g].name = errors[k].option /\ mGroups[g].isRequired
           /\ CountOf(errors, errors[k]) = 1

\* The empty input was parsed on a registry with a required option, a
\* positional that needs an argument and a required group: the result has
\* one error of each of the three kinds at least.
C20_Witness ==
  /\ pc = "returned"
  /\ args = <<>>
  /\ CountErrors(errors, "MISSING_OPTION") > 0
  /\ CountErrors(errors, "MISSING_ARGUMENT") > 0
  /\ CountErrors(errors, "MISSING_OPTION_GROUP") > 0

(***************************************************************************)
(* C21  An option bound to a vector destination and given one argument per *)
(* occurrence appends one element per occurrence: after parsing            *)
(* -l v1 -l v2 ... -l vn with acceptable values the destination holds      *)
(* [v1, ..., vn] in token order and no error is reported.                  *)
(***************************************************************************)
\* The arguments are occurrences of option i, each followed by one
\* acceptable value.
VectorOccurrences(i) ==
  /\ Len(args) >= 2 /\ Len(args) % 2 = 0
  /\ \A k \in 1..Len(args) :
       IF k % 2 = 1
       THEN /\ SingleStart(args[k]) /\ Find(args[k], "=") = 0
            /\ Parser_findOption(args[k]) = i
       ELSE /\ ~StartsWith(args[k], Dash)
            /\ Acceptable(mOptions[i], args[k])

C21_VectorOptionAppends ==
  \A i \in 1..Len(mOptions) :
    ( /\ ResultOfParse
      /\ mOptions[i].isVector /\ mOptions[i].minArgs = 1 /\ mOptions[i].maxArgs = 1
      /\ VectorOccurrences(i) ) =>
        /\ dest[mOptions[i].dest] =
             [k \in 1..(Len(args) \div 2) |-> Convert(mOptions[i].conv, args[2 * k])]
        /\ errors = <<>>

\* -l 1 -l 2 was parsed.
C21_Witness ==
  /\ ResultOfParse
  /\ \E i \in 1..Len(mOptions) :
       /\ mOptions[i].isVector /\ mOptions[i].minArgs = 1 /\ mOptions[i].maxArgs = 1
       /\ VectorOccurrences(i)
       /\ Len(dest[mOptions[i].dest]) = 2
  /\ Len(args) = 4 /\ args[2] # args[4]

(***************************************************************************)
(* C22  A positional declared without an arity call requires and accepts   *)
(* exactly one token when its destination is scalar, and accepts zero or   *)
(* more tokens when its destination is a vector: a single vector           *)
(* positional receives every free token in input order, the free-argument  *)
(* list stays empty, and no MISSING_ARGUMENT is reported for it on empty   *)
(* input (here: on any input).                                             *)
(***************************************************************************)
\* Positional j has the arity tryAddArgument gave it.
DefaultArity(j) ==
  LET o == mPositional[j]
  IN  [o EXCEPT !.group = <<>>] = PositionalOpt(o.long, o.conv, o.dest, o.isVector)

\* The step handles a free token: any token in ignore mode, or a dash-free
\* token no active option accepts.
FreeToken ==
  /\ TokenStep
  /\ mIgnoreOptions \/ (~StartsWith(CurToken, Dash) /\ ~ActiveAccepts)

MissingArgument(j) == ParseError(Option_getName(mPositional[j]), "MISSING_ARGUMENT")

C22_PositionalDefaultArity ==
  [][ \A j \in 1..Len(mPositional) : DefaultArity(j) =>
        LET o == mPositional[j]
            received == Len(CallsOf(setCalls', <<"pos", j>>))
            result == pc' = "returned" /\ argIdx' > 0
        IN  /\ ~o.isVector =>
                 /\ o.minArgs = 1 /\ o.maxArgs = 1
                 /\ received <= 1
                 /\ result => CountOf(errors', MissingArgument(j)) =
                                IF received = 0 THEN 1 ELSE 0
            /\ o.isVector =>
                 /\ o.minArgs = 0 /\ o.maxArgs = -1
                 /\ CountOf(errors', MissingArgument(j)) = 0
                 /\ Len(mPositional) = 1 =>
                      /\ ignoredArguments' = <<>>
                      /\ FreeToken =>
                           /\ Len(NewCalls) = 1
                           /\ NewCalls[1].ref = <<"pos", j>>
                           /\ NewCalls[1].value = CurToken ]_vars

(***************************************************************************)
(* C27  If no help option was declared explicitly, the first parse_args    *)
(* installs exactly one help option with the names --help and -h before    *)
(* tokenizing; later parse_args calls install nothing further (the number  *)
(* of registered options is unchanged from the second parse on), and when  *)
(* a help option was declared explicitly no default is ever installed.     *)
(***************************************************************************)
\* The options that answer to --help or to -h.
DefaultHelpOptions(opts) ==
  {i \in 1..Len(opts) : Option_hasName(opts[i], HelpLong) \/ Option_hasName(opts[i], HelpShort)}

C27_DefaultHelpInstalledOnce ==
  [][ /\ (CallStep /\ mHelpOptionNames = {}) =>
           /\ pc = "idle"
           /\ DefaultHelpOptions(mOptions) = {}
           /\ Len(mOptions') = Len(mOptions) + 1
           /\ SubSeq(mOptions', 1, Len(mOptions)) = mOptions
           /\ mOptions'[Len(mOptions')].long = HelpLong
           /\ mOptions'[Len(mOptions')].short = HelpShort
           /\ mHelpOptionNames' = {HelpLong, HelpShort}
           /\ argIdx' <= 1 /\ setCalls' = <<>>
      /\ ~(CallStep /\ mHelpOptionNames = {}) =>
           /\ mOptions' = mOptions
           /\ mHelpOptionNames' = mHelpOptionNames
           /\ mHelpOptionNames = {HelpLong, HelpShort} <=> DefaultHelpOptions(mOptions) # {} ]_vars

\* A second parse_args has returned and the parser holds the one default
\* help option.
C27_Witness ==
  /\ ResultOfParse
  /\ stale # {}
  /\ mHelpOptionNames = {HelpLong, HelpShort}
  /\ Cardinality(DefaultHelpOptions(mOptions)) = 1

(***************************************************************************)
(* C30  During a parse, position starts at 0, never decreases and never    *)
(* exceeds the number of positionals; a positional receives a token only   *)
(* when every positional declared before it can no longer accept one, and  *)
(* a free token is appended to the free-argument list only when no         *)
(* positional at or after position accepts it.                             *)
(***************************************************************************)
\* Positional k accepts one more token.
PositionalAccepts(k) == Option_willAcceptArgument(mPositional[k], posValues[k])

C30_PositionInvariants ==
  [][ /\ (CallStep /\ pc' = "parsing") => mPosition' = 0
      /\ TokenStep =>
           /\ mPosition >= 0
           /\ mPosition' >= mPosition
           /\ mPosition' <= Len(mPositional)
           /\ \A n \in 1..Len(NewCalls) :
                NewCalls[n].ref[1] = "pos" =>
                  \A k \in 1..(NewCalls[n].ref[2] - 1) : ~PositionalAccepts(k)
           /\ ignoredArguments' # ignoredArguments =>
                /\ ignoredArguments' = Append(ignoredArguments, CurToken)
                /\ \A k \in (mPosition + 1)..Len(mPositional) : ~PositionalAccepts(k) ]_vars

\* Both positionals took their tokens, position reached the number of
\* positionals and the last token went to the free arguments.
C30_Witness ==
  /\ ResultOfParse
  /\ Len(mPositional) = 2
  /\ mPosition = 2
  /\ Len(CallsOf(setCalls, <<"pos", 1>>)) = 1
  /\ Len(CallsOf(setCalls, <<"pos", 2>>)) = 2
  /\ Len(ignoredArguments) = 1

(***************************************************************************)
(* C23  On one option configuration handle, the first call among nargs /   *)
(* minargs / maxargs succeeds, and every later call to any of the three    *)
(* raises an invalid-argument error and leaves the option's min and max    *)
(* unchanged.                                                              *)
(***************************************************************************)
C23_ArityIsSetOnce ==
  [][ lastCall'.op \in CountCalls =>
        LET before == OptionOf(handle, mOptions, mPositional)
            after == OptionOf(handle, mOptions', mPositional')
        IN  /\ handle' = [handle EXCEPT !.mCountWasSet = handle'.mCountWasSet]
            /\ (lastCall.op = "add_argument" /\ exception = "none") =>
                 exception' = "none"
            /\ lastCall.op \in CountCalls =>
                 /\ exception' = "invalid_argument"
                 /\ after.minArgs = before.minArgs
                 /\ after.maxArgs = before.maxArgs ]_vars

\* nargs(2) was followed by maxargs(1) on the same handle, which raised and
\* left the count at two.
C23_Witness ==
  /\ lastCall = [op |-> "maxargs", count |-> 1]
  /\ exception = "invalid_argument"
  /\ handle.list = "opt"
  /\ mOptions[handle.index].minArgs = 2
  /\ mOptions[handle.index].maxArgs = 2

(***************************************************************************)
(* C26  add_argument fails with a declaration error when all names are     *)
(* empty, when any name contains whitespace, when the names mix dashed and *)
(* dash-free forms, when a single-dash name has more than one character    *)
(* after the dash, or when the only names given are - or -- (the option    *)
(* would have no name); in every other case it succeeds and registers      *)
(* exactly one definition.                                                 *)
(***************************************************************************)
\* The names of the call are names add_argument rejects.
RejectedNames(names) ==
  LET given == SelectSeq(names, LAMBDA n : n # <<>>)
      dashed(n) == n[1] = "-"
  IN  \/ given = <<>>
      \/ \E k \in 1..Len(given) : \E i \in 1..Len(given[k]) : given[k][i] \in {" ", "\t", "\n"}
      \/ /\ \E k \in 1..Len(given) : dashed(given[k])
         /\ \E k \in 1..Len(given) : ~dashed(given[k])
      \/ \E k \in 1..Len(given) :
           dashed(given[k]) /\ ~StartsWith(given[k], DashDash) /\ Len(given[k]) > 2
      \/ \A k \in 1..Len(given) : given[k] \in {Dash, DashDash}

C26_AddArgumentNames ==
  [][ lastCall'.op = "add_argument" =>
        IF RejectedNames(lastCall'.names)
        THEN exception' = "invalid_argument"
        ELSE /\ exception' = "none"
             /\ Len(mOptions') + Len(mPositional') = Len(mOptions) + Len(mPositional) + 1
             /\ SubSeq(mOptions', 1, Len(mOptions)) = mOptions
             /\ SubSeq(mPositional', 1, Len(mPositional)) = mPositional
             /\ handle'.index = IF handle'.list = "opt" THEN Len(mOptions') ELSE Len(mPositional')
             /\ Option_getName(OptionOf(handle', mOptions', mPositional')) # <<>> ]_vars

\* add_argument( value, "-", "-a" ) has registered the option -a.
C26_Witness ==
  /\ lastCall = [op |-> "add_argument", names |-> <<Dash, <<"-", "a">>>>]
  /\ exception = "none"
  /\ Len(mOptions) = 1 /\ mPositional = <<>>
  /\ mOptions[1].short = <<"-", "a">>

(***************************************************************************)
(* C24  add_group and add_exclusive_group look the name up                 *)
(* case-insensitively: an unknown name creates one group of the requested  *)
(* kind, a known name of the same kind is reused (no second group is       *)
(* created and its kind never changes), and a known name of the opposite   *)
(* kind raises the mixing-group-types error leaving the group table and    *)
(* the currently active group unchanged.                                   *)
(***************************************************************************)
\* The two names differ in the case of their letters at most.
SameName(s, t) ==
  /\ Len(s) = Len(t)
  /\ \A i \in 1..Len(s) : s[i] = t[i] \/ toupper(s[i]) = t[i] \/ s[i] = toupper(t[i])

\* The groups of the table that answer to the name.
Known(groups, name) == {i \in 1..Len(groups) : SameName(groups[i].name, name)}

C24_GroupLookup ==
  [][ /\ \A i \in 1..Len(mGroups) : \E j \in 1..Len(mGroups') :
           /\ mGroups'[j].name = mGroups[i].name
           /\ mGroups'[j].isExclusive = mGroups[i].isExclusive
      /\ lastCall'.op \in {"add_group", "add_exclusive_group"} =>
           LET name == lastCall'.name
               kind == lastCall'.op = "add_exclusive_group"
               known == Known(mGroups, name)
           IN  /\ Cardinality(Known(mGroups', name)) = 1
               /\ known = {} =>
                    /\ exception' = "none"
                    /\ Len(mGroups') = Len(mGroups) + 1
                    /\ \A j \in Known(mGroups', name) :
                         /\ mGroups'[j].isExclusive = kind
                         /\ mpActiveGroup' = mGroups'[j].name
               /\ \A i \in known :
                    IF mGroups[i].isExclusive = kind
                    THEN /\ exception' = "none"
                         /\ mGroups' = mGroups
                         /\ mpActiveGroup' = mGroups[i].name
                    ELSE /\ exception' = "MixingGroupTypes"
                         /\ mGroups' = mGroups
                         /\ mpActiveGroup' = mpActiveGroup ]_vars

\* add_exclusive_group( "IO" ) raised for the group io, while the group all
\* stayed the active one.
C24_Witness ==
  /\ lastCall = [op |-> "add_exclusive_group", name |-> <<"I", "O">>]
  /\ exception = "MixingGroupTypes"
  /\ Len(mGroups) = 2
  /\ mGroups[2].name = <<"i", "o">> /\ ~mGroups[2].isExclusive
  /\ mpActiveGroup = <<"a", "l", "l">>

(***************************************************************************)
(* C25  A group's isRequired is monotonic over any sequence of             *)
(* declarations: once some required(true) call has been made on the group  *)
(* (from any declaration site sharing the name), every later               *)
(* required(false) call leaves it true.                                    *)
(***************************************************************************)
C25_RequiredIsMonotonic ==
  [][ /\ \A i \in 1..Len(mGroups) :
           mGroups[i].isRequired =>
             \E j \in 1..Len(mGroups') :
               mGroups'[j].name = mGroups[i].name /\ mGroups'[j].isRequired
      /\ (lastCall'.op = "required" /\ lastCall'.isRequired) =>
           \E j \in 1..Len(mGroups') :
             mGroups'[j].name = lastCall'.name /\ mGroups'[j].isRequired ]_vars

\* required( false ) was called on a required group that is not the active
\* one.
C25_Witness ==
  /\ lastCall.op = "required" /\ ~lastCall.isRequired
  /\ mpActiveGroup # lastCall.name
  /\ \E i \in 1..Len(mGroups) : mGroups[i].name = lastCall.name /\ mGroups[i].isRequired

(***************************************************************************)
(* Vocabulary of the properties of descriptions                            *)
(***************************************************************************)
\* The step is a describe_argument call that returns a description.
DescribeStep == lastCall'.op = "describe_argument" /\ exception' = "none"

\* The definition the call describes.
DescribedOption == DescribedList(lastCall'.name)[DescribedIndex(lastCall'.name)]

RECURSIVE WithoutDashes(_)
WithoutDashes(s) == IF s # <<>> /\ s[1] = "-" THEN WithoutDashes(Tail(s)) ELSE s

(***************************************************************************)
(* C28  With no explicit metavar, the metavar of a named option is its     *)
(* primary name (long name if present, else short name) with leading       *)
(* dashes stripped and upper-cased, and the metavar of a positional is its *)
(* name used verbatim with case preserved; an explicit metavar overrides   *)
(* both.  The metavar is observed as the arguments summary of a definition *)
(* that takes exactly one argument.                                        *)
(***************************************************************************)
C28_MetavarDerivation ==
  [][ DescribeStep =>
        LET o == DescribedOption
            named == StartsWith(lastCall'.name, Dash)
            primary == IF o.long # <<>> THEN o.long ELSE o.short
            metavar == IF o.metavar # <<>> THEN o.metavar
                       ELSE IF named THEN ToUpper(WithoutDashes(primary))
                       ELSE o.long
        IN  (o.minArgs = 1 /\ o.maxArgs = 1) => described'.arguments = metavar ]_vars

(***************************************************************************)
(* C29  For every arity reachable through nargs / minargs / maxargs, the   *)
(* arguments summary of a value-taking definition with metavar M and       *)
(* bounds (min, max) is M repeated min times separated by single spaces,   *)
(* followed by [M ...] when max is unbounded, [M] when max - min = 1,      *)
(* [M {0..k}] with k = max - min when max - min > 1, and nothing when      *)
(* max = min, the optional part being separated from a non-empty repeated  *)
(* part by one space; a pure flag has an empty summary.                    *)
(***************************************************************************)
RECURSIVE Spaced(_, _)
Spaced(M, n) ==
  IF n = 0 THEN <<>> ELSE IF n = 1 THEN M ELSE M \o <<" ">> \o Spaced(M, n - 1)

Summary(M, min, max) ==
  LET repeated == Spaced(M, min)
      optional == IF max < 0 THEN <<"[">> \o M \o <<" ", ".", ".", ".", "]">>
                  ELSE IF max - min = 1 THEN <<"[">> \o M \o <<"]">>
                  ELSE IF max - min > 1
                  THEN <<"[">> \o M \o <<" ", "{", "0", ".", ".">>
                         \o to_string(max - min) \o <<"}", "]">>
                  ELSE <<>>
  IN  IF repeated # <<>> /\ optional # <<>>
      THEN repeated \o <<" ">> \o optional
      ELSE repeated \o optional

C29_ArgumentsSummary ==
  [][ DescribeStep =>
        LET o == DescribedOption
        IN  described'.arguments =
              IF o.minArgs = 0 /\ o.maxArgs = 0 THEN <<>>
              ELSE Summary(Option_getMetavar(o), o.minArgs, o.maxArgs) ]_vars

\* An option declared with metavar( "w" ) and minargs( 2 ) was described.
C29_Witness ==
  /\ lastCall.op = "describe_argument"
  /\ exception = "none"
  /\ described.arguments = <<"w", " ", "w", " ", "[", "w", " ", ".", ".", ".", "]">>

(***************************************************************************)
(* C31  Between tokens, activeOption is either none or an option that can  *)
(* still accept an argument: an option whose maximum arity has been        *)
(* reached, whether by explicit tokens or by an =value suffix, is no       *)
(* longer active, pure flags are never active, and activeOption is none    *)
(* when parse returns.                                                     *)
(***************************************************************************)
C31_ActiveOptionAccepts ==
  /\ pc = "parsing" => (mpActiveOption = 0 \/ ActiveAccepts)
  /\ mpActiveOption # 0 => ~IsFlag(mpActiveOption)
  /\ pc \in {"validating", "returned"} => mpActiveOption = 0

C33_CountWithinMax ==
  /\ \A i \in 1..Len(mOptions) :
       mOptions[i].maxArgs >= 1 => optValues[i].optionAssignCount <= mOptions[i].maxArgs
  /\ \A j \in 1..Len(mPositional) :
       mPositional[j].maxArgs >= 1 =>
         /\ posValues[j].optionAssignCount <= mPositional[j].maxArgs
         /\ Len(CallsOf(setCalls, <<"pos", j>>)) <= mPositional[j].maxArgs

\* --pair has its two arguments, one from its suffix and one from the next
\* token, and a further token is waiting.
C33_Witness ==
  /\ pc = "parsing" /\ argIdx = 3 /\ Len(args) = 3
  /\ Find(args[1], "=") # 0
  /\ \E i \in 1..Len(mOptions) :
       mOptions[i].maxArgs = 2 /\ optValues[i].optionAssignCount = 2

(***************************************************************************)
(* C34  A call to add_argument that fails with a declaration error leaves  *)
(* the lists of named options and positionals exactly as they were before  *)
(* the call: no nameless or partially named definition stays registered.   *)
(***************************************************************************)
C34_FailedAddArgumentRegistersNothing ==
  [][ (lastCall'.op = "add_argument" /\ exception' = "invalid_argument") =>
        /\ mOptions' = mOptions
        /\ mPositional' = mPositional ]_vars

(***************************************************************************)
(* C35  After a successful add_argument of a named option, every non-empty *)
(* name passed to it resolves through the option lookup to that            *)
(* definition, unless an earlier definition already uses the name; two     *)
(* short names or two long names are both findable.                        *)
(***************************************************************************)
C35_EveryNameResolves ==
  [][ (lastCall'.op = "add_argument" /\ exception' = "none" /\ handle'.list = "opt") =>
        \A n \in OptionNames \ {<<>>} :
          (/\ \E k \in 1..2 : lastCall'.names[k] = n
           /\ \A j \in 1..Len(mOptions) : ~Option_hasName(mOptions[j], n)) =>
            Parser_findOption(n)' = handle'.index ]_vars

\* The place of a validation error in the order of the validation pass.
ValidationRank(code) ==
  CASE code = "MISSING_OPTION" -> 1
    [] code = "MISSING_ARGUMENT" -> 2
    [] code = "EXCLUSIVE_OPTION" -> 3
    [] code = "MISSING_OPTION_GROUP" -> 4
    [] OTHER -> 0

\* The place of the definition called name in a list of definitions.
DeclaredAt(list, name) ==
  IF \E i \in 1..Len(list) : Option_getName(list[i]) = name
  THEN CHOOSE i \in 1..Len(list) :
         /\ Option_getName(list[i]) = name
         /\ \A j \in 1..(i - 1) : Option_getName(list[j]) # name
  ELSE 0

(***************************************************************************)
(* C36  In the result, the errors raised while tokenizing are in token     *)
(* order and precede every validation error; the validation errors are in  *)
(* the order MISSING_OPTION (options in declaration order), positional     *)
(* MISSING_ARGUMENT (declaration order), EXCLUSIVE_OPTION,                 *)
(* MISSING_OPTION_GROUP.                                                   *)
(***************************************************************************)
C36_ErrorOrder ==
  [][ /\ pc \in {"parsing", "validating"} =>
           /\ Len(errors') >= Len(errors)
           /\ SubSeq(errors', 1, Len(errors)) = errors
      /\ pc = "parsing" => pc' # "returned"
      /\ pc = "validating" =>
           /\ argIdx > Len(args)
           /\ pc' = "returned"
           /\ \A i \in 1..Len(NewErrors) : ValidationRank(NewErrors[i].errorCode) # 0
           /\ \A i, j \in 1..Len(NewErrors) :
                i < j =>
                  LET a == NewErrors[i]
                      b == NewErrors[j]
                  IN  /\ ValidationRank(a.errorCode) <= ValidationRank(b.errorCode)
                      /\ (a.errorCode = "MISSING_OPTION" /\ b.errorCode = "MISSING_OPTION") =>
                           DeclaredAt(mOptions, a.option) < DeclaredAt(mOptions, b.option)
                      /\ (a.errorCode = "MISSING_ARGUMENT" /\ b.errorCode = "MISSING_ARGUMENT") =>
                           DeclaredAt(mPositional, a.option) < DeclaredAt(mPositional, b.option)
    ]_vars

C36_Witness ==
  /\ pc = "returned"
  /\ Len(errors) >= 4
  /\ errors[1].errorCode = "MISSING_ARGUMENT"
  /\ Parser_findOption(errors[1].option) # 0
  /\ errors[2].errorCode = "MISSING_OPTION"
  /\ errors[3].errorCode = "MISSING_ARGUMENT"
  /\ DeclaredAt(mPositional, errors[3].option) # 0
  /\ errors[4].errorCode = "MISSING_OPTION_GROUP"

\* The sequence sub is left when elements of seq are removed.
RECURSIVE IsSubsequence(_, _)
IsSubsequence(sub, seq) ==
  IF sub = <<>> THEN TRUE
  ELSE IF seq = <<>> THEN FALSE
  ELSE IF Head(sub) = Head(seq) THEN IsSubsequence(Tail(sub), Tail(seq))
  ELSE IsSubsequence(sub, Tail(seq))

(***************************************************************************)
(* C37  The free arguments of a result are a subsequence of the input      *)
(* tokens in input order: a token step leaves the list alone or appends    *)
(* its token, and the token it appends was not assigned to an option or a  *)
(* positional and is not the first --.                                     *)
(***************************************************************************)
C37_FreeArgumentsAreUnassignedTokens ==
  [][ /\ IsSubsequence(ignoredArguments', args')
      /\ TokenStep =>
           \/ ignoredArguments' = ignoredArguments
           \/ /\ ignoredArguments' = Append(ignoredArguments, CurToken)
              /\ NewCalls = <<>>
              /\ ~(CurToken = DashDash /\ ~mIgnoreOptions)
      /\ (pc \in {"parsing", "validating"} /\ ~TokenStep) =>
           ignoredArguments' = ignoredArguments
      /\ pc \notin {"parsing", "validating"} => ignoredArguments' = <<>>
    ]_vars

\* A parse returned a free argument that followed a -- after a positional
\* took a token.
C37_Witness ==
  /\ pc = "returned"
  /\ Len(ignoredArguments) = 1
  /\ Len(args) = 3
  /\ args[3] = ignoredArguments[1]
  /\ \E k \in 1..Len(setCalls) : setCalls[k].ref[1] = "pos" /\ setCalls[k].exc = "none"
  /\ \E k \in 1..Len(args) : args[k] = DashDash

\* The arity of a definition is well formed.
ArityWellFormed(o) ==
  /\ o.minArgs >= 0
  /\ o.maxArgs = -1 \/ o.maxArgs >= o.minArgs

(***************************************************************************)
(* C38  After any sequence of builder calls every definition has           *)
(* min >= 0 and (max = -1 or max >= min).  nargs(n) gives                  *)
(* min = max = max(0, n), minargs(n) gives min = max(0, n) and no upper    *)
(* bound, maxargs(n) gives min = 0 and max = max(0, n), and a named option *)
(* with no arity call is a flag with min = max = 0.                        *)
(***************************************************************************)
C38_ArityBounds ==
  [][ /\ \A i \in 1..Len(mOptions') : ArityWellFormed(mOptions'[i])
      /\ \A j \in 1..Len(mPositional') : ArityWellFormed(mPositional'[j])
      /\ (lastCall'.op \in CountCalls /\ exception' = "none") =>
           LET o == OptionOf(handle', mOptions', mPositional')
               n == lastCall'.count
               clamped == IF n < 0 THEN 0 ELSE n
           IN  /\ lastCall'.op = "nargs" => (o.minArgs = clamped /\ o.maxArgs = clamped)
               /\ lastCall'.op = "minargs" => (o.minArgs = clamped /\ o.maxArgs = -1)
               /\ lastCall'.op = "maxargs" => (o.minArgs = 0 /\ o.maxArgs = clamped)
      /\ (handle'.list = "opt" /\ ~handle'.mCountWasSet) =>
           /\ mOptions'[handle'.index].minArgs = 0
           /\ mOptions'[handle'.index].maxArgs = 0
    ]_vars

\* nargs(-1) on a positional made its arity 0.
C38_Witness ==
  /\ lastCall = [op |-> "nargs", count |-> -1]
  /\ exception = "none"
  /\ handle.list = "pos"
  /\ mPositional[handle.index].minArgs = 0
  /\ mPositional[handle.index].maxArgs = 0

\* The values of the named options after a parse that assigned those of S.
AssignedIn(S) ==
  [i \in 1..Len(mOptions) |->
     IF i \in S THEN [NewValue EXCEPT !.assignCount = 1, !.optionAssignCount = 1]
     ELSE NewValue]

\* Whatever the parse assigned to the positionals, an EXCLUSIVE_OPTION error
\* takes two assigned named options of one exclusive group.
ExclusiveErrorsNeedTwoOptions ==
  \A S \in SUBSET (1..Len(mOptions)) :
    reportExclusiveViolations(AssignedIn(S)) # <<>> =>
      \E i, j \in S :
        /\ i # j
        /\ mOptions[i].group = mOptions[j].group
        /\ InExclusiveGroup(mOptions[i])

NoPositionalInExclusiveGroup ==
  \A j \in 1..Len(mPositional) : ~InExclusiveGroup(mPositional[j])

(***************************************************************************)
(* C39  A positional declared while an exclusive group is active is        *)
(* registered with no group and without an error, and never counts towards *)
(* an EXCLUSIVE_OPTION error; a positional declared while a non-exclusive  *)
(* group is active becomes a member of that group.                         *)
(***************************************************************************)
C39_PositionalAndActiveGroup ==
  [][ /\ (lastCall'.op = "add_argument" /\ ~has_dash(lastCall'.names[1])) =>
           /\ exception' = "none"
           /\ Len(mPositional') = Len(mPositional) + 1
           /\ mOptions' = mOptions
           /\ LET o == mPositional'[Len(mPositional')]
              IN  /\ (mpActiveGroup # <<>> /\ GroupOf(mpActiveGroup).isExclusive) =>
                       o.group = <<>>
                  /\ (mpActiveGroup # <<>> /\ ~GroupOf(mpActiveGroup).isExclusive) =>
                       o.group = mpActiveGroup
                  /\ mpActiveGroup = <<>> => o.group = <<>>
      /\ NoPositionalInExclusiveGroup'
      /\ ExclusiveErrorsNeedTwoOptions'
    ]_vars

\* A positional was declared after a named option, both while an exclusive
\* group was active.
C39_Witness ==
  /\ lastCall.op = "add_argument"
  /\ mpActiveGroup # <<>>
  /\ GroupOf(mpActiveGroup).isExclusive
  /\ Len(mPositional) = 1
  /\ Len(mOptions) = 1
  /\ mOptions[1].group = mpActiveGroup
  /\ mPositional[1].group = <<>>
  /\ handle.list = "pos"

(***************************************************************************)
(* C40  When an option has an assign-action, the choice check runs first.  *)
(* For an accepted value the conversion of the slot is invoked only if the *)
(* action returns a string, and then with the returned string.  When the   *)
(* action returns nothing the counters of the slot are unchanged, so the   *)
(* occurrence has not received an argument.                                *)
(***************************************************************************)
C40_AssignAction ==
  [][ /\ (TokenStep /\ NewCalls # <<>> /\ RefOption(NewCalls[1].ref).action # "none") =>
           LET c == NewCalls[1]
               opt == RefOption(c.ref)
               v == SlotOf(c.ref)
               w == SlotAfter(c.ref)
               returned == AssignAction_assign(opt.action, c.value)
           IN  /\ Len(NewCalls) = 1
               /\ BadChoice(c) =>
                    /\ c.exc = "InvalidChoiceError"
                    /\ dest' = dest
                    /\ w.assignCount = v.assignCount
               /\ (~BadChoice(c) /\ returned = <<>>) =>
                    /\ c.exc = "none"
                    /\ w = v
                    /\ dest' = dest
                    /\ NewErrors = <<>>
                    /\ mpActiveOption' = mpActiveOption
               /\ (~BadChoice(c) /\ returned # <<>>) =>
                    /\ w.assignCount = v.assignCount + 1
                    /\ w.optionAssignCount = v.optionAssignCount + 1
                    /\ IF CanConvert(opt.conv, returned[1])
                       THEN /\ c.exc = "none"
                            /\ dest'[opt.dest] = <<Convert(opt.conv, returned[1])>>
                       ELSE /\ c.exc = "invalid_argument"
                            /\ dest' = dest
      /\ (/\ pc = "parsing"
          /\ argIdx > Len(args)
          /\ mpActiveOption # 0
          /\ mOptions[mpActiveOption].action = "drop") =>
             NewErrors = <<ParseError(Option_getName(mOptions[mpActiveOption]),
                                      "MISSING_ARGUMENT")>>
    ]_vars

\* -w x: x is a choice, the action returned 7 and 7 was converted and stored.
C40_Witness ==
  /\ pc = "returned"
  /\ args = << <<"-", "w">>, <<"x">> >>
  /\ errors = <<>>
  /\ \E i \in 1..Len(mOptions) :
       /\ mOptions[i].action = "seven"
       /\ dest[mOptions[i].dest] = <<Convert("long", <<"7">>)>>
       /\ optValues[i].assignCount = 1

====
